---- MODULE Spec2Model ----
(***************************************************************************)
(* Ghost Job Hunter: the ingestion pipeline (scrape, dedup, verify, score, *)
(* insert), the re-verification sweep and the public listing query,        *)
(* modelled from src/src/lib/utils.ts, src/unnamed/part_004 (scraper),      *)
(* src/unnamed/part_006 (verifier) and src/src/lib/automation/ai-checker.ts *)
(***************************************************************************)
EXTENDS Integers, Sequences, FiniteSets, TLC

\* null / undefined: a timestamp, a status or a response that is absent
NoTime == 0 - 1
NoStatus == 0 - 1
NetFail == 0 - 1   \* fetch rejected: timeout (abort after 10 s) or network error

(***************************************************************************)
(* Bounds of the model.                                                    *)
(***************************************************************************)
MaxBatch == 2      \* postings the feed serves to one run, SpecIngest
MaxSysBatch == 1   \* postings the feed serves to one run, Spec
MaxRuns == 2       \* ingestion runs
MaxSweeps == 2     \* re-verification sweeps
MaxTicks == 5      \* clock ticks; one tick is half the sweep threshold (12h)
MaxAggBatch == 3   \* postings per batch in the aggregator specification
MaxPages == 2      \* pages the paginated source serves in the adapter specification
MaxUnits == 7      \* postings one run hands to its verification stage, SpecBatch
MaxListRows == 2   \* rows of the table in the listing specification
NumAdapters == 3   \* adapters running concurrently in the completion-order specification
MaxStored == 2     \* rows of the table in the lookup specification
MaxEdits == 2      \* writes the administrator makes, SpecAdmin
MaxAdminRuns == 1  \* ingestion runs next to the administrator, SpecAdmin
MaxAdminSweeps == 1 \* sweeps next to the administrator, SpecAdmin
MaxLag == 2        \* hours that pass while sweeps are under way, SpecFresh

(***************************************************************************)
(* Program constants.                                                      *)
(***************************************************************************)
FRESHNESS_HOURS == 48
REVERIFY_HOURS == 24
BASE_SCORE == 70
REVIEW_ACCEPT_SCORE == 60
MAX_ENTRY_SALARY == 200000
MIN_COMPANY_LENGTH == 3
SHORT_DESCRIPTION == 100
LONG_DESCRIPTION == 500
VERIFY_CONCURRENCY == 5
SCORE_CONCURRENCY == 3

TickHours == REVERIFY_HOURS \div 2

(***************************************************************************)
(* Strings.  A title or a company name is a sequence of one-character      *)
(* strings, so that toLowerCase and the template `${company}-${title}` are *)
(* computed and not assumed.                                               *)
(***************************************************************************)
UpperLetters == <<"A","B","C","D","E","F","G","H","I","J","K","L","M",
                  "N","O","P","Q","R","S","T","U","V","W","X","Y","Z">>
LowerLetters == <<"a","b","c","d","e","f","g","h","i","j","k","l","m",
                  "n","o","p","q","r","s","t","u","v","w","x","y","z">>

LowerChar(c) ==
    IF \E i \in 1..26 : UpperLetters[i] = c
    THEN LowerLetters[CHOOSE i \in 1..26 : UpperLetters[i] = c]
    ELSE c

toLowerCase(s) == [i \in 1..Len(s) |-> LowerChar(s[i])]

Range(s) == {s[i] : i \in 1..Len(s)}

\* Array.prototype.filter on a list of positions: those in keep, in order
RECURSIVE FilterIdx(_, _)
FilterIdx(s, keep) ==
    IF s = <<>> THEN <<>>
    ELSE IF Head(s) \in keep THEN <<Head(s)>> \o FilterIdx(Tail(s), keep)
         ELSE FilterIdx(Tail(s), keep)

(***************************************************************************)
(* Text.  The description of a posting is its length and the phrases that  *)
(* occur in it; String.includes and the regular expressions of the source  *)
(* are decided on the phrases, a phrase containing its sub-phrases.        *)
(***************************************************************************)
SubPhrases(p) ==
    CASE p = "urgently hiring" -> {"urgently hiring", "urgently"}
      [] p = "immediate start" -> {"immediate start", "immediate"}
      [] p = "no experience needed" -> {"no experience needed", "no experience"}
      [] p = "guaranteed income" -> {"guaranteed income", "guaranteed"}
      [] p = "unlimited earning" -> {"unlimited earning"}
      [] OTHER -> {p}

\* text.includes(needle) for text = `${title} ${description}`
Includes(phrases, needle) == \E p \in phrases : needle \in SubPhrases(p)

(***************************************************************************)
(* URLs.  A URL is its host, a sequence of host fragments, and a path.     *)
(* The empty string is the URL with no host and no path.                   *)
(***************************************************************************)
Url(h, p) == [host |-> h, path |-> p]
EmptyUrl == Url(<<>>, "")

\* ScrapedJob (part_004:13-24): the fields the pipeline reads
\* an absent salary is 0 (the source tests salaries for truthiness only)
Posting(t, c, a, s, lo, hi, len, ph) ==
    [title |-> t, company |-> c, applyUrl |-> a, sourceUrl |-> s,
     salaryMin |-> lo, salaryMax |-> hi,
     description |-> [length |-> len, phrases |-> ph]]

GhUrl1 == Url(<<"boards-api.", "greenhouse.io">>, "/acme/1")
AcmeUrl == Url(<<"jobs.", "acme.com">>, "/2")
BoltUrl == Url(<<"bolt.dev">>, "/3")
RemoteOkUrl == Url(<<"remoteok.com">>, "/9")

Acme == <<"A","c","m","e">>
ACME == <<"A","C","M","E">>
Bolt == <<"B","o","l","t">>
Dev == <<"D","e","v">>
DEV == <<"d","e","v">>
Qa == <<"Q","a">>

\* the end-to-end posting of the README: greenhouse, salary range, long text
JobAcme == Posting(Dev, Acme, GhUrl1, GhUrl1, 70000, 90000, 600, {})
\* the same (company, title) after lower-casing, another apply URL
JobAcme2 == Posting(DEV, ACME, AcmeUrl, RemoteOkUrl, 0, 0, 300, {"team"})
\* another (company, title) with the apply URL of JobAcme
JobBolt == Posting(Qa, Bolt, GhUrl1, RemoteOkUrl, 0, 0, 50, {})
\* a company site posting with a short description and no salary
JobShort == Posting(Qa, Acme, BoltUrl, BoltUrl, 0, 0, 50, {})
\* a posting with red flags
JobScam == Posting(Dev, Bolt, BoltUrl, EmptyUrl, 250000, 250000, 300,
                   {"guaranteed income"})

Catalogue == {JobAcme, JobBolt, JobShort, JobScam}

\* two postings of different (company, title) joined to the same key string
JobHyphenCo == Posting(<<"C">>, <<"A","-","B">>, BoltUrl, BoltUrl, 0, 0, 50, {})
JobHyphenTitle == Posting(<<"B","-","C">>, <<"A">>, AcmeUrl, AcmeUrl, 0, 0, 50, {})

\* what the adapters of the aggregator specification can return
AggCatalogue ==
    {JobAcme, JobAcme2, JobShort, JobBolt, JobHyphenCo, JobHyphenTitle}

\* all sequences over S of length at most n
SeqsUpTo(S, n) == UNION {[1..k -> S] : k \in 0..n}

(***************************************************************************)
(* Aggregator (part_004:574-628).                                          *)
(***************************************************************************)
\* DedupKey without the lower-casing
DedupKeyCaseSensitive(job) == job.company \o <<"-">> \o job.title

\* the dedup key `${company.toLowerCase()}-${title.toLowerCase()}`
DedupKey(job) == toLowerCase(job.company) \o <<"-">> \o toLowerCase(job.title)

\* allJobs.filter with the `seen` set: the positions of allJobs that are kept
RECURSIVE UniqueFrom(_, _, _)
UniqueFrom(allJobs, i, seen) ==
    IF i > Len(allJobs) THEN {}
    ELSE LET key == DedupKey(allJobs[i])
         IN IF key \in seen THEN UniqueFrom(allJobs, i + 1, seen)
            ELSE {i} \cup UniqueFrom(allJobs, i + 1, seen \cup {key})

UniqueIdx(allJobs) == UniqueFrom(allJobs, 1, {})

RECURSIVE Flatten(_)
Flatten(lists) ==
    IF lists = <<>> THEN <<>> ELSE Head(lists) \o Flatten(Tail(lists))

\* scrapeAllSources: the per-source results concatenated in the fixed order of
\* the Promise.all array, then deduplicated; first occurrence wins
scrapeAllSources(results) ==
    LET allJobs == Flatten(results)
        kept == FilterIdx([i \in 1..Len(allJobs) |-> i], UniqueIdx(allJobs))
    IN [i \in 1..Len(kept) |-> allJobs[kept[i]]]

(***************************************************************************)
(* Verifier (part_006).                                                    *)
(***************************************************************************)
HttpStatuses == {200, 404}
Responses == HttpStatuses \cup {NetFail}

\* response.status >= 200 && response.status < 400
LinkOk(status) == status >= 200 /\ status < 400

\* checkUrlAccessibility: HEAD, and GET when the HEAD fetch rejects
checkUrlAccessibility(head, get) ==
    IF head # NetFail THEN [accessible |-> LinkOk(head), status |-> head]
    ELSE IF get # NetFail THEN [accessible |-> LinkOk(get), status |-> get]
    ELSE [accessible |-> FALSE, status |-> NoStatus]

TRUSTED_DOMAINS ==
    {"greenhouse.io", "lever.co", "ashbyhq.com", "workday.com",
     "smartrecruiters.com", "jobvite.com", "icims.com", "taleo.net",
     "myworkdayjobs.com", "careers-page.com", "breezy.hr", "recruitee.com",
     "bamboohr.com", "workable.com", "jazz.co", "applytojob.com"}

\* domain.includes(trusted), decided on the fragments of the host
HostIncludes(host, trusted) == \E i \in 1..Len(host) : host[i] = trusted

\* checkCompanyDomain: an unparsable URL is invalid, an allow-listed host is
\* trusted without a request, any other host by the check of its root
checkCompanyDomain(applyUrl, rootHead, rootGet) ==
    IF applyUrl.host = <<>> THEN FALSE
    ELSE IF \E t \in TRUSTED_DOMAINS : HostIncludes(applyUrl.host, t) THEN TRUE
    ELSE checkUrlAccessibility(rootHead, rootGet).accessible

RED_FLAG_PATTERNS ==
    << [pattern |-> {"urgently hiring"}, flag |-> "Urgently hiring language"],
       [pattern |-> {"immediate start"}, flag |-> "Immediate start pressure"],
       [pattern |-> {"no experience needed"},
        flag |-> "No experience needed for tech role"],
       [pattern |-> {"work from home $100k"},
        flag |-> "Work from home with unrealistic salary claims"],
       [pattern |-> {"$500/day"}, flag |-> "Unrealistic daily rate"],
       [pattern |-> {"$300/hour"},
        flag |-> "Unrealistic hourly rate (>$200/hr for entry level)"],
       [pattern |-> {"guaranteed income"}, flag |-> "Guaranteed income claims"],
       [pattern |-> {"be your own boss"}, flag |-> "MLM-style language"],
       [pattern |-> {"unlimited earning"}, flag |-> "Unlimited earning claims"],
       [pattern |-> {"crypto payment"}, flag |-> "Crypto payment offers"],
       [pattern |-> {"training fee", "pay for training"},
        flag |-> "Requires training fee"],
       [pattern |-> {"send money", "wire transfer"},
        flag |-> "Requests money transfer"],
       [pattern |-> {"personal bank account"},
        flag |-> "Requests bank account info"],
       [pattern |-> {"ssn", "social security"}, flag |-> "Requests SSN upfront"] >>

\* pattern.test(textToCheck)
PatternTest(pattern, phrases) == \E w \in pattern : Includes(phrases, w)

RECURSIVE PatternFlags(_, _)
PatternFlags(i, phrases) ==
    IF i > Len(RED_FLAG_PATTERNS) THEN <<>>
    ELSE (IF PatternTest(RED_FLAG_PATTERNS[i].pattern, phrases)
          THEN <<RED_FLAG_PATTERNS[i].flag>> ELSE <<>>)
         \o PatternFlags(i + 1, phrases)

WordCompany == <<"c","o","m","p","a","n","y">>
WordConfidential == <<"c","o","n","f","i","d","e","n","t","i","a","l">>

\* detectRedFlags with >= in the salary test
detectRedFlagsInclusive(job) ==
    PatternFlags(1, job.description.phrases)
    \o (IF job.salaryMin # 0 /\ job.salaryMin >= MAX_ENTRY_SALARY
        THEN <<"Unrealistic entry-level salary (>$200k)">> ELSE <<>>)
    \o (IF \/ Len(job.company) < MIN_COMPANY_LENGTH
           \/ toLowerCase(job.company) = WordCompany
           \/ toLowerCase(job.company) = WordConfidential
        THEN <<"Vague or confidential company name">> ELSE <<>>)

detectRedFlags(job) ==
    PatternFlags(1, job.description.phrases)
    \o (IF job.salaryMin # 0 /\ job.salaryMin > MAX_ENTRY_SALARY
        THEN <<"Unrealistic entry-level salary (>$200k)">> ELSE <<>>)
    \o (IF \/ Len(job.company) < MIN_COMPANY_LENGTH
           \/ toLowerCase(job.company) = WordCompany
           \/ toLowerCase(job.company) = WordConfidential
        THEN <<"Vague or confidential company name">> ELSE <<>>)

\* the network responses one verifyJob call observes
NetInputs == [head : Responses, get : Responses,
              rootHead : Responses, rootGet : Responses]

\* verifyJob
verifyJob(job, net) ==
    LET link == checkUrlAccessibility(net.head, net.get)
        companyDomainValid ==
            checkCompanyDomain(job.applyUrl, net.rootHead, net.rootGet)
        redFlags == detectRedFlags(job)
        hasRedFlags == Len(redFlags) > 0
    IN [isValid |-> link.accessible /\ companyDomainValid /\ ~hasRedFlags,
        urlStatus |-> link.status,
        urlAccessible |-> link.accessible,
        companyDomainValid |-> companyDomainValid,
        hasRedFlags |-> hasRedFlags,
        redFlags |-> redFlags]
(***************************************************************************)
(* Legitimacy scorer (ai-checker.ts).                                      *)
(***************************************************************************)
\* applyUrl.includes(word), decided on the fragments of the host
FragmentWords(f) ==
    CASE f = "greenhouse.io" -> {"greenhouse"}
      [] f = "lever.co" -> {"lever"}
      [] f = "workday.com" -> {"workday"}
      [] f = "myworkdayjobs.com" -> {"workday"}
      [] OTHER -> {}

UrlIncludes(url, word) ==
    \E i \in 1..Len(url.host) : word \in FragmentWords(url.host[i])

Max(a, b) == IF a > b THEN a ELSE b
Min(a, b) == IF a < b THEN a ELSE b

\* the signals of analyzeWithRules, in source order: concern or positive
\* signal, its label and its score change
RuleSignals(job) ==
    LET text == job.description.phrases
        desc == job.description
    IN << [on |-> Includes(text, "urgently") \/ Includes(text, "immediate"),
           concern |-> TRUE, label |-> "Urgency language detected", delta |-> 0 - 15],
          [on |-> Includes(text, "no experience") /\ Includes(text, "senior"),
           concern |-> TRUE, label |-> "Contradictory experience requirements",
           delta |-> 0 - 20],
          [on |-> \/ Len(job.company) < MIN_COMPANY_LENGTH
                  \/ toLowerCase(job.company) = WordConfidential,
           concern |-> TRUE, label |-> "Company name not disclosed", delta |-> 0 - 15],
          [on |-> desc.length = 0 \/ desc.length < SHORT_DESCRIPTION,
           concern |-> TRUE, label |-> "Very short or missing description",
           delta |-> 0 - 10],
          [on |-> Includes(text, "guaranteed") \/ Includes(text, "unlimited earning"),
           concern |-> TRUE, label |-> "Too-good-to-be-true claims", delta |-> 0 - 25],
          [on |-> job.salaryMin # 0 /\ job.salaryMax # 0
                  /\ job.salaryMax > job.salaryMin,
           concern |-> FALSE, label |-> "Salary range provided", delta |-> 10],
          [on |-> \/ Includes(text, "team") \/ Includes(text, "report to")
                  \/ Includes(text, "manager"),
           concern |-> FALSE, label |-> "Team structure mentioned", delta |-> 5],
          [on |-> \/ UrlIncludes(job.applyUrl, "greenhouse")
                  \/ UrlIncludes(job.applyUrl, "lever")
                  \/ UrlIncludes(job.applyUrl, "workday"),
           concern |-> FALSE, label |-> "Uses legitimate ATS platform", delta |-> 10],
          [on |-> desc.length # 0 /\ desc.length > LONG_DESCRIPTION,
           concern |-> FALSE, label |-> "Detailed job description", delta |-> 5] >>

\* RuleScore as an else-if chain: only the first signal present counts
RECURSIVE RuleScoreElseIf(_, _, _)
RuleScoreElseIf(signals, i, score) ==
    IF i > Len(signals) THEN score
    ELSE IF signals[i].on THEN score + signals[i].delta
         ELSE RuleScoreElseIf(signals, i + 1, score)

RECURSIVE RuleScore(_, _, _)
RuleScore(signals, i, score) ==
    IF i > Len(signals) THEN score
    ELSE RuleScore(signals, i + 1,
                   IF signals[i].on THEN score + signals[i].delta ELSE score)

RECURSIVE RuleLabels(_, _, _)
RuleLabels(signals, i, concern) ==
    IF i > Len(signals) THEN <<>>
    ELSE (IF signals[i].on /\ signals[i].concern = concern
          THEN <<signals[i].label>> ELSE <<>>)
         \o RuleLabels(signals, i + 1, concern)

\* ClampScore without the lower cap
ClampScoreAbove(score) == Min(100, score)

\* Math.max(0, Math.min(100, score))
ClampScore(score) == Max(0, Min(100, score))

\* score >= 70 ? "APPROVE" : score >= 50 ? "REVIEW" : "REJECT"
RuleRecommendation(score) ==
    IF score >= 70 THEN "APPROVE" ELSE IF score >= 50 THEN "REVIEW" ELSE "REJECT"

\* isLikelyGhostJob = score < 50
RuleGhost(score) == score < 50

Assessment(score, ghost, concerns, positives, rec) ==
    [legitimacyScore |-> score, isLikelyGhostJob |-> ghost,
     concerns |-> concerns, positiveSignals |-> positives,
     recommendation |-> rec]

analyzeWithRules(job) ==
    LET signals == RuleSignals(job)
        score == ClampScore(RuleScore(signals, 1, BASE_SCORE))
    IN Assessment(score, RuleGhost(score),
                  RuleLabels(signals, 1, TRUE), RuleLabels(signals, 1, FALSE),
                  RuleRecommendation(score))

\* what a model provider hands back: null, or the JSON object it produced,
\* which the source casts to AIAnalysisResult without validating it
NoReply == [available |-> FALSE]
Reply(a) == [available |-> TRUE, result |-> a]

\* objects a provider can produce that are no well-formed assessment: a
\* score out of range, a ghost flag that contradicts the score, a
\* recommendation outside the three values
MalformedOutputs ==
    {Assessment(150, FALSE, <<>>, <<>>, "APPROVE"),
     Assessment(30, FALSE, <<>>, <<>>, "REJECT"),
     Assessment(80, FALSE, <<>>, <<>>, "MAYBE")}

ModelOutputs ==
    {Assessment(90, FALSE, <<>>, <<>>, "APPROVE"),
     Assessment(65, FALSE, <<>>, <<>>, "REVIEW"),
     Assessment(55, FALSE, <<>>, <<>>, "REVIEW"),
     Assessment(20, TRUE, <<>>, <<>>, "REJECT")}
    \cup MalformedOutputs

ProviderReplies == {NoReply} \cup {Reply(a) : a \in ModelOutputs}

\* analyzeJobWithAI: OpenAI, then Anthropic, then the rule engine
analyzeJobWithAI(job, openai, anthropic) ==
    IF openai.available THEN openai.result
    ELSE IF anthropic.available THEN anthropic.result
    ELSE analyzeWithRules(job)
(***************************************************************************)
(* State.                                                                  *)
(***************************************************************************)
VARIABLES
    now,        \* the clock, in hours
    store,      \* the jobs table: a sequence of rows, the id of a row its position
    upstream,   \* what each source adapter currently serves, in adapter order
    ing,        \* runPipeline: its position and its local variables
    sw,         \* reverifyExistingJobs: its position and its local variables
    hist,       \* history: counters and what the previous run and sweep did
    probe,      \* the input of the function under test (function specifications)
    out         \* its output

vars == <<now, store, upstream, ing, sw, hist, probe, out>>

StorageOutcomes == {"ok", "error", "throw"}

\* JobRow with the timestamp set whatever the recommendation
JobRowAlwaysStamped(job, verification, aiAnalysis, time) ==
    [title |-> job.title,
     company |-> job.company,
     apply_url |-> job.applyUrl,
     source_url |-> job.sourceUrl,
     verification_status |->
         IF aiAnalysis.recommendation = "APPROVE" THEN "VERIFIED" ELSE "PENDING",
     last_verified_at |-> time,
     verification_notes |->
         [kind |-> "Auto-verified", score |-> aiAnalysis.legitimacyScore,
          http |-> verification.urlStatus, at |-> NoTime],
     created_at |-> time]

\* verification_notes: the template, and the score, HTTP status and time it embeds
Note(kind, score, http, at) == [kind |-> kind, score |-> score, http |-> http, at |-> at]

\* the jobs row runPipeline inserts (utils.ts:196-213)
JobRow(job, verification, aiAnalysis, time) ==
    [title |-> job.title,
     company |-> job.company,
     apply_url |-> job.applyUrl,
     source_url |-> job.sourceUrl,
     verification_status |->
         IF aiAnalysis.recommendation = "APPROVE" THEN "VERIFIED" ELSE "PENDING",
     last_verified_at |->
         IF aiAnalysis.recommendation = "APPROVE" THEN time ELSE NoTime,
     verification_notes |->
             Note("Auto-verified", aiAnalysis.legitimacyScore,
              verification.urlStatus, NoTime),
     created_at |-> time]

IngIdle ==
    [pc |-> "idle", jobs |-> <<>>, existingUrls |-> {}, newJobs |-> <<>>,
     verificationResults |-> <<>>, validJobs |-> <<>>, aiResults |-> <<>>,
     approvedJobs |-> <<>>, idx |-> 1, addedCount |-> 0, skippedCount |-> 0,
     errors |-> <<>>, result |-> <<>>, repeat |-> FALSE, lookup |-> "none"]

SwIdle ==
    [pc |-> "idle", jobsToCheck |-> <<>>, idx |-> 1, response |-> NetFail,
     expired |-> 0, errors |-> <<>>, result |-> <<>>, startedAt |-> 0,
     writesOk |-> TRUE, afterClean |-> FALSE, load |-> "none"]

HistInit ==
    [runs |-> 0, sweeps |-> 0, prevJobs |-> <<>>, prevAllAdded |-> FALSE,
     quiet |-> FALSE, cleanSweep |-> FALSE]

\* what the adapters can serve: one feed of at most n postings
Upstreams(n) == {<<feed>> : feed \in SeqsUpTo(Catalogue, n)}

Init ==
    /\ now = 0
    /\ store = <<>>
    /\ upstream \in Upstreams(MaxSysBatch)
    /\ ing = IngIdle
    /\ sw = SwIdle
    /\ hist = HistInit
    /\ probe = <<>>
    /\ out = <<>>

\* no operation is between two of its steps
Quiescent == ing.pc = "idle" /\ sw.pc = "idle"

PipelineResult(scraped, verified, added, skipped, failed, errors) ==
    [scrapedCount |-> scraped, verifiedCount |-> verified, addedCount |-> added,
     skippedCount |-> skipped, failedCount |-> failed, errors |-> errors]

(***************************************************************************)
(* runPipeline (utils.ts:60-242).                                          *)
(***************************************************************************)
\* history: the run starting on the aggregate `jobs` directly repeats a run
\* that scraped the same aggregate and inserted all of it, the store written
\* by nothing else in between
Repeats(h, jobs) ==
    h.runs >= 1 /\ h.quiet /\ h.prevAllAdded /\ h.prevJobs = jobs

\* history: a run on `jobs` returns with addedCount = added
HistEnd(h, jobs, added) ==
    [h EXCEPT !.runs = @ + 1, !.prevJobs = jobs,
              !.prevAllAdded = (added = Len(jobs)), !.quiet = TRUE]

\* Step 1 (60-87): every adapter serves its feed or, on an error, nothing
Scrape ==
    /\ Quiescent
    /\ hist.runs < MaxRuns
    /\ \E up \in SUBSET (1..Len(upstream)) :
         LET results == [i \in 1..Len(upstream) |->
                            IF i \in up THEN upstream[i] ELSE <<>>]
             jobs == scrapeAllSources(results)
         IN IF Len(jobs) = 0
            THEN /\ ing' = [IngIdle EXCEPT !.pc = "done",
                               !.result = <<PipelineResult(0, 0, 0, 0, 0, <<>>)>>]
                 /\ hist' = HistEnd(hist, jobs, 0)
            ELSE /\ ing' = [IngIdle EXCEPT !.pc = "lookup", !.jobs = jobs,
                                           !.repeat = Repeats(hist, jobs)]
                 /\ hist' = hist
    /\ UNCHANGED <<now, store, upstream, sw, probe, out>>

\* the apply_url and source_url of every row (utils.ts:99-104)
StoredUrls(rows) ==
    {rows[i].apply_url : i \in 1..Len(rows)}
    \cup {rows[i].source_url : i \in 1..Len(rows)}

\* jobs.filter(j => !existingUrls.has(j.applyUrl) && !existingUrls.has(j.sourceUrl))
IsNewJob(job, existingUrls) ==
    job.applyUrl \notin existingUrls /\ job.sourceUrl \notin existingUrls

Positions(s) == [i \in 1..Len(s) |-> i]

\* Step 2 (89-125): the select resolves with the rows, resolves with an error
\* and no rows, or rejects; the filter runs on whatever was loaded
Lookup ==
    /\ ing.pc = "lookup"
    /\ \E outcome \in StorageOutcomes :
         LET existingUrls == IF outcome = "ok" THEN StoredUrls(store) ELSE {}
             errors == IF outcome = "throw"
                       THEN Append(ing.errors, "Database check error")
                       ELSE ing.errors
             newJobs == FilterIdx(Positions(ing.jobs),
                            {i \in 1..Len(ing.jobs) :
                                IsNewJob(ing.jobs[i], existingUrls)})
             skippedCount == Len(ing.jobs) - Len(newJobs)
         IN IF Len(newJobs) = 0
            THEN /\ ing' = [ing EXCEPT !.pc = "done",
                               !.existingUrls = existingUrls,
                               !.lookup = outcome,
                               !.errors = errors,
                               !.skippedCount = skippedCount,
                               !.result = <<PipelineResult(Len(ing.jobs), 0, 0,
                                               skippedCount, 0, errors)>>]
                 /\ hist' = HistEnd(hist, ing.jobs, 0)
            ELSE /\ ing' = [ing EXCEPT !.pc = "verify",
                               !.existingUrls = existingUrls,
                               !.lookup = outcome,
                               !.errors = errors,
                               !.newJobs = newJobs,
                               !.skippedCount = skippedCount]
                 /\ hist' = hist
    /\ UNCHANGED <<now, store, upstream, sw, probe, out>>

\* the responses that differ in what checkUrlAccessibility reads of them
NetCases ==
    {n \in NetInputs : /\ (n.head # NetFail => n.get = NetFail)
                       /\ (n.rootHead # NetFail => n.rootGet = NetFail)}

\* the maps verifyJobs can return for the jobs at the positions of todo
VerifyOutcomes(jobs, todo) ==
    {[i \in todo |-> verifyJob(jobs[i], nets[i])] : nets \in [todo -> NetCases]}

\* result?.urlAccessible && !result?.hasRedFlags (utils.ts:140-143)
IsValidJob(results, i) ==
    i \in DOMAIN results /\ results[i].urlAccessible /\ ~results[i].hasRedFlags

\* Step 3 (127-156): verifyJobs on every new job, or the stage throws and the
\* map stays empty
Verify ==
    /\ ing.pc = "verify"
    /\ \E results \in {<<>>} \cup VerifyOutcomes(ing.jobs, Range(ing.newJobs)) :
         LET thrown == results = <<>>
             errors == IF thrown THEN Append(ing.errors, "Verification error")
                       ELSE ing.errors
             validJobs == FilterIdx(ing.newJobs,
                              {i \in Range(ing.newJobs) : IsValidJob(results, i)})
         IN IF Len(validJobs) = 0
            THEN /\ ing' = [ing EXCEPT !.pc = "done",
                               !.verificationResults = results,
                               !.errors = errors,
                               !.result = <<PipelineResult(Len(ing.jobs), 0, 0,
                                               ing.skippedCount, Len(ing.newJobs),
                                               errors)>>]
                 /\ hist' = HistEnd(hist, ing.jobs, 0)
            ELSE /\ ing' = [ing EXCEPT !.pc = "score",
                               !.verificationResults = results,
                               !.errors = errors,
                               !.validJobs = validJobs]
                 /\ hist' = hist
    /\ UNCHANGED <<now, store, upstream, sw, probe, out>>
\* the provider replies that differ in what analyzeJobWithAI reads of them
ProviderCases ==
    {c \in [openai : ProviderReplies, anthropic : ProviderReplies] :
        c.openai.available => c.anthropic = NoReply}

\* the maps analyzeJobs can return for the jobs at the positions of todo
AnalyzeOutcomes(jobs, todo) ==
    {[i \in todo |-> analyzeJobWithAI(jobs[i], replies[i].openai,
                                      replies[i].anthropic)] :
        replies \in [todo -> ProviderCases]}

\* the assessment used when aiResults has none for the job (utils.ts:175-182)
DefaultAnalysis == Assessment(70, FALSE, <<>>, <<>>, "REVIEW")

\* IsApproved without the score test on REVIEW
IsApprovedAnyReview(aiAnalysis) ==
    aiAnalysis.recommendation \in {"APPROVE", "REVIEW"}

\* the filter of utils.ts:184-188
IsApproved(aiAnalysis) ==
    \/ aiAnalysis.recommendation = "APPROVE"
    \/ /\ aiAnalysis.recommendation = "REVIEW"
       /\ aiAnalysis.legitimacyScore >= REVIEW_ACCEPT_SCORE

\* the run's result once the insert loop has ended (utils.ts:233-241)
\* FinalResult that reports every accepted posting as added
FinalResultCountsAttempts(g) ==
    PipelineResult(Len(g.jobs), Len(g.validJobs), Len(g.approvedJobs),
                   g.skippedCount, Len(g.newJobs) - Len(g.validJobs), g.errors)

FinalResult(g) ==
    PipelineResult(Len(g.jobs), Len(g.validJobs), g.addedCount, g.skippedCount,
                   Len(g.newJobs) - Len(g.validJobs)
                       + (Len(g.approvedJobs) - g.addedCount),
                   g.errors)

RECURSIVE CombineFrom(_, _, _, _)
CombineFrom(validJobs, i, verificationResults, aiResults) ==
    IF i > Len(validJobs) THEN <<>>
    ELSE LET job == validJobs[i]
             aiAnalysis == IF job \in DOMAIN aiResults THEN aiResults[job]
                           ELSE DefaultAnalysis
             rest == CombineFrom(validJobs, i + 1, verificationResults, aiResults)
         IN IF IsApproved(aiAnalysis)
            THEN <<[job |-> job, verification |-> verificationResults[job],
                    aiAnalysis |-> aiAnalysis]>> \o rest
            ELSE rest

\* Step 4 (158-190): analyzeJobs on every valid job, or the stage throws and
\* the map stays empty; then the map and filter that build approvedJobs
Score ==
    /\ ing.pc = "score"
    /\ \E aiResults \in {<<>>} \cup AnalyzeOutcomes(ing.jobs, Range(ing.validJobs)) :
         LET thrown == aiResults = <<>>
             errors == IF thrown THEN Append(ing.errors, "AI analysis error")
                       ELSE ing.errors
             approvedJobs == CombineFrom(ing.validJobs, 1,
                                         ing.verificationResults, aiResults)
             g == [ing EXCEPT !.aiResults = aiResults, !.errors = errors,
                              !.approvedJobs = approvedJobs,
                              !.idx = 1, !.addedCount = 0]
         IN IF Len(approvedJobs) = 0
            THEN /\ ing' = [g EXCEPT !.pc = "done", !.result = <<FinalResult(g)>>]
                 /\ hist' = HistEnd(hist, ing.jobs, 0)
            ELSE /\ ing' = [g EXCEPT !.pc = "insert"]
                 /\ hist' = hist
    /\ UNCHANGED <<now, store, upstream, sw, probe, out>>

\* Step 5 (192-242): one pass of the insert loop; after the last one the run
\* returns its result
Insert ==
    /\ ing.pc = "insert"
    /\ \E outcome \in StorageOutcomes :
         LET item == ing.approvedJobs[ing.idx]
             row == JobRow(ing.jobs[item.job], item.verification,
                           item.aiAnalysis, now)
             g == [ing EXCEPT
                      !.idx = @ + 1,
                      !.addedCount = IF outcome = "ok" THEN @ + 1 ELSE @,
                      !.errors = IF outcome = "ok" THEN @
                                 ELSE Append(@, "Insert error")]
         IN /\ store' = IF outcome = "ok" THEN Append(store, row) ELSE store
            /\ IF ing.idx = Len(ing.approvedJobs)
               THEN /\ ing' = [g EXCEPT !.pc = "done",
                                        !.result = <<FinalResult(g)>>]
                    /\ hist' = [HistEnd(hist, ing.jobs, g.addedCount)
                                   EXCEPT !.cleanSweep = @ /\ outcome # "ok"]
               ELSE /\ ing' = g
                    /\ hist' = [hist EXCEPT !.cleanSweep = @ /\ outcome # "ok"]
    /\ UNCHANGED <<now, upstream, sw, probe, out>>
\* the caller has the result; the locals of the run are gone
Return ==
    /\ ing.pc = "done"
    /\ ing' = IngIdle
    /\ UNCHANGED <<now, store, upstream, sw, hist, probe, out>>

(***************************************************************************)
(* reverifyExistingJobs (utils.ts:247-336).                                *)
(***************************************************************************)
\* IsDue with lte in place of lt
IsDueInclusive(row, time) ==
    /\ row.verification_status = "VERIFIED"
    /\ row.last_verified_at # NoTime
    /\ row.last_verified_at <= time - REVERIFY_HOURS

\* .eq("verification_status", "VERIFIED").lt("last_verified_at", twentyFourHoursAgo)
\* a null timestamp satisfies no comparison
IsDue(row, time) ==
    /\ row.verification_status = "VERIFIED"
    /\ row.last_verified_at # NoTime
    /\ row.last_verified_at < time - REVERIFY_HOURS

SweepResult(checked, expired, errors) ==
    [checked |-> checked, expired |-> expired, errors |-> errors]

\* the select (257-278): the rows due, an error, or a rejected promise, which
\* nothing in reverifyExistingJobs catches
SweepLoad ==
    /\ Quiescent
    /\ hist.sweeps < MaxSweeps
    /\ \E outcome \in StorageOutcomes :
         LET due == FilterIdx(Positions(store),
                        {i \in 1..Len(store) : IsDue(store[i], now)})
             jobsToCheck == [k \in 1..Len(due) |->
                                [id |-> due[k], apply_url |-> store[due[k]].apply_url]]
             s0 == [SwIdle EXCEPT !.startedAt = now, !.load = outcome,
                                  !.afterClean = hist.cleanSweep]
         IN /\ sw' = CASE outcome = "throw" -> [s0 EXCEPT !.pc = "crashed"]
                       [] outcome = "error" ->
                            [s0 EXCEPT !.pc = "done",
                                !.errors = <<"Fetch error">>,
                                !.result = <<SweepResult(0, 0, <<"Fetch error">>)>>]
                       [] Len(jobsToCheck) = 0 ->
                            [s0 EXCEPT !.pc = "done",
                                !.result = <<SweepResult(0, 0, <<>>)>>]
                       [] OTHER ->
                            [s0 EXCEPT !.pc = "fetch", !.jobsToCheck = jobsToCheck]
            /\ hist' = [hist EXCEPT !.sweeps = @ + 1,
                           !.cleanSweep = outcome = "ok" /\ Len(jobsToCheck) = 0]
    /\ UNCHANGED <<now, store, upstream, ing, probe, out>>

\* the HEAD request of 284-296: a status, or the fetch rejects
SweepFetch ==
    /\ sw.pc = "fetch"
    /\ \E response \in Responses :
         sw' = [sw EXCEPT !.pc = "update", !.response = response]
    /\ UNCHANGED <<now, store, upstream, ing, hist, probe, out>>

\* update({last_verified_at, verification_notes}).eq("id", id) (300-306)
Refresh(rows, id, time) ==
    [rows EXCEPT ![id].last_verified_at = time,
                 ![id].verification_notes = Note("Re-verified", NoStatus, NoStatus, time)]

\* update({verification_status: "BROKEN_LINK", verification_notes}).eq("id", id)
\* (309-315 with the status observed, 320-326 with none)
Demote(rows, id, http, time) ==
    [rows EXCEPT ![id].verification_status = "BROKEN_LINK",
                 ![id].verification_notes =
                     IF http = NoStatus
                     THEN Note("Link unreachable", NoStatus, NoStatus, time)
                     ELSE Note("Link broken", NoStatus, http, time)]

\* the two storage outcomes one pass can observe: that of the update in the
\* try block and that of the update in the catch block
UpdateCases(response) ==
    {c \in [first : StorageOutcomes, second : StorageOutcomes] :
        /\ (response = NetFail => c.first = "throw")
        /\ (c.first # "throw" => c.second = "ok")}

\* the sweep's test of a link (287-298): the HEAD request answered, with a
\* status in [200,400); a rejected fetch goes to the catch block
SweepLinkOk(response) == response # NetFail /\ LinkOk(response)

\* the rest of one pass of the loop (298-332), and the return after the last
SweepUpdate ==
    /\ sw.pc = "update"
    /\ \E c \in UpdateCases(sw.response) :
         LET id == sw.jobsToCheck[sw.idx].id
             live == SweepLinkOk(sw.response)
             caught == c.first = "throw"
             crashed == caught /\ c.second = "throw"
             rows == CASE ~caught /\ c.first = "ok" /\ live ->
                              Refresh(store, id, now)
                      [] ~caught /\ c.first = "ok" /\ ~live ->
                              Demote(store, id, sw.response, now)
                      [] caught /\ c.second = "ok" ->
                              Demote(store, id, NoStatus, now)
                      [] OTHER -> store
             expired == IF crashed \/ (~caught /\ live) THEN sw.expired
                        ELSE sw.expired + 1
             g == [sw EXCEPT !.idx = @ + 1, !.expired = expired,
                      !.writesOk = @ /\ IF sw.response = NetFail
                                        THEN c.second = "ok"
                                        ELSE c.first = "ok"]
         IN /\ store' = rows
            /\ sw' = IF crashed THEN [g EXCEPT !.pc = "crashed", !.idx = sw.idx]
                     ELSE IF sw.idx = Len(sw.jobsToCheck)
                     THEN [g EXCEPT !.pc = "done",
                              !.result = <<SweepResult(Len(sw.jobsToCheck),
                                                       expired, sw.errors)>>]
                     ELSE [g EXCEPT !.pc = "fetch"]
            /\ hist' = [hist EXCEPT
                           !.quiet = @ /\ rows = store,
                           !.cleanSweep = ~crashed /\ g.writesOk
                                          /\ sw.idx = Len(sw.jobsToCheck)]
    /\ UNCHANGED <<now, upstream, ing, probe, out>>

\* the caller has the result, or the fault that reverifyExistingJobs let through
SweepReturn ==
    /\ sw.pc \in {"done", "crashed"}
    /\ sw' = SwIdle
    /\ UNCHANGED <<now, store, upstream, ing, hist, probe, out>>

\* what a trigger route answers (route.ts:60-76, 115-131): the result of the
\* call wrapped with success: true, or, when the call threw, success: false
\* with the message of the fault and status 500
TriggerReply(pc, result) ==
    IF pc = "done"
    THEN [success |-> TRUE, status |-> 200, result |-> result[1]]
    ELSE [success |-> FALSE, status |-> 500, error |-> "fault"]

(***************************************************************************)
(* The clock and the public listing.                                       *)
(***************************************************************************)
Tick ==
    /\ Quiescent
    /\ now < MaxTicks * TickHours
    /\ now' = now + TickHours
    /\ hist' = [hist EXCEPT !.cleanSweep = FALSE]
    /\ UNCHANGED <<store, upstream, ing, sw, probe, out>>

\* IsListed without the status test
IsListedAnyStatus(row, time) ==
    /\ row.last_verified_at # NoTime
    /\ row.last_verified_at >= time - FRESHNESS_HOURS

\* IsListed with gt in place of gte
IsListedStrict(row, time) ==
    /\ row.verification_status = "VERIFIED"
    /\ row.last_verified_at # NoTime
    /\ row.last_verified_at > time - FRESHNESS_HOURS

\* .eq("verification_status", "VERIFIED").gte("last_verified_at", fortyEightHoursAgo)
IsListed(row, time) ==
    /\ row.verification_status = "VERIFIED"
    /\ row.last_verified_at # NoTime
    /\ row.last_verified_at >= time - FRESHNESS_HOURS

\* the ids the queries of HomePage and JobsPage select
PublicListing(rows, time) == {i \in 1..Len(rows) : IsListed(rows[i], time)}

Next == Scrape \/ Lookup \/ Verify \/ Score \/ Insert \/ Return
        \/ SweepLoad \/ SweepFetch \/ SweepUpdate \/ SweepReturn \/ Tick

Spec == Init /\ [][Next]_vars

\* ingestion alone, on larger batches
InitIngest ==
    /\ now = 0
    /\ store = <<>>
    /\ upstream \in Upstreams(MaxBatch)
    /\ ing = IngIdle
    /\ sw = SwIdle
    /\ hist = HistInit
    /\ probe = <<>>
    /\ out = <<>>

NextIngest == Scrape \/ Lookup \/ Verify \/ Score \/ Insert \/ Return

SpecIngest == InitIngest /\ [][NextIngest]_vars

(***************************************************************************)
(* The aggregator on its own: two adapters return any postings of the      *)
(* catalogue, MaxAggBatch in all, and scrapeAllSources merges them.        *)
(***************************************************************************)
SourceResults ==
    {<<a, b>> : a \in SeqsUpTo(AggCatalogue, MaxAggBatch),
                b \in SeqsUpTo(AggCatalogue, MaxAggBatch)}

InitAgg ==
    /\ now = 0
    /\ store = <<>>
    /\ upstream = <<>>
    /\ ing = IngIdle
    /\ sw = SwIdle
    /\ hist = HistInit
    /\ probe \in {r \in SourceResults : Len(r[1]) + Len(r[2]) <= MaxAggBatch}
    /\ out = <<>>

\* one call of scrapeAllSources on the results of the adapters
Aggregate ==
    /\ out = <<>>
    /\ out' = <<scrapeAllSources(probe)>>
    /\ UNCHANGED <<now, store, upstream, ing, sw, hist, probe>>

SpecAgg == InitAgg /\ [][Aggregate]_vars

(***************************************************************************)
(* The rule engine on its own: analyzeWithRules on every posting of a      *)
(* product of field values that switches each of its nine signals.         *)
(***************************************************************************)
RuleCompanies == {Acme, Qa, <<"C","o","n","f","i","d","e","n","t","i","a","l">>}
RuleSalaries == {<<0, 0>>, <<70000, 90000>>, <<90000, 90000>>}
RuleLengths == {0, 99, 100, 500, 501, 600}
RulePhrases ==
    SUBSET {"urgently hiring", "no experience needed", "senior",
            "guaranteed income", "team"}

RulePostings ==
    {Posting(Dev, c, a, a, sal[1], sal[2], len, ph) :
        c \in RuleCompanies, a \in {GhUrl1, BoltUrl}, sal \in RuleSalaries,
        len \in RuleLengths, ph \in RulePhrases}

InitRules ==
    /\ now = 0
    /\ store = <<>>
    /\ upstream = <<>>
    /\ ing = IngIdle
    /\ sw = SwIdle
    /\ hist = HistInit
    /\ probe \in RulePostings
    /\ out = <<>>

\* one call of analyzeWithRules
Analyze ==
    /\ out = <<>>
    /\ out' = <<analyzeWithRules(probe)>>
    /\ UNCHANGED <<now, store, upstream, ing, sw, hist, probe>>

SpecRules == InitRules /\ [][Analyze]_vars

(***************************************************************************)
(* The red-flag detector on its own: detectRedFlags on every posting of a  *)
(* product of texts, minimum salaries and company names.                   *)
(***************************************************************************)
FlagCompanies ==
    {Acme, Qa, <<"C","o","m","p","a","n","y">>,
     <<"C","O","N","F","I","D","E","N","T","I","A","L">>}
FlagSalaries == {0, 150000, 200000, 200001, 250000}
FlagPhrases ==
    SUBSET {"urgently hiring", "guaranteed income", "wire transfer", "ssn"}

FlagPostings ==
    {Posting(Dev, c, BoltUrl, BoltUrl, lo, lo, 300, ph) :
        c \in FlagCompanies, lo \in FlagSalaries, ph \in FlagPhrases}

InitFlags ==
    /\ now = 0
    /\ store = <<>>
    /\ upstream = <<>>
    /\ ing = IngIdle
    /\ sw = SwIdle
    /\ hist = HistInit
    /\ probe \in FlagPostings
    /\ out = <<>>

\* one call of detectRedFlags
DetectFlags ==
    /\ out = <<>>
    /\ out' = <<detectRedFlags(probe)>>
    /\ UNCHANGED <<now, store, upstream, ing, sw, hist, probe>>

SpecFlags == InitFlags /\ [][DetectFlags]_vars

(***************************************************************************)
(* The scorer on its own: one call of analyzeJobWithAI, step by step.      *)
(* probe holds the posting, the position in analyzeJobWithAI and the log   *)
(* of the strategies tried; out holds the assessment returned.             *)
(***************************************************************************)
\* how a provider call can end without an assessment (ai-checker.ts:60-110):
\* no API key, response not ok, fetch or JSON.parse threw, no content in
\* the response, no {...} in the content
ProviderFailures ==
    {"no key", "not ok", "exception", "no content", "no json"}

ProviderOutcomes ==
    {[kind |-> k, result |-> NoReply] : k \in ProviderFailures}
    \cup {[kind |-> "ok", result |-> Reply(a)] : a \in ModelOutputs}

\* `if (result) return result`, else the next strategy, always the next
AfterProviderAlways(reply, next) == next

\* `if (result) return result`, else the next strategy
AfterProvider(reply, next) == IF reply.available THEN "done" ELSE next

Logged(who, kind) == [who |-> who, kind |-> kind]

InitScorer ==
    /\ now = 0
    /\ store = <<>>
    /\ upstream = <<>>
    /\ ing = IngIdle
    /\ sw = SwIdle
    /\ hist = HistInit
    /\ probe \in {[job |-> j, pc |-> "openai", log |-> <<>>] : j \in Catalogue}
    /\ out = <<>>

\* let result = await analyzeWithOpenAI(job) (256-260)
TryOpenAI ==
    /\ probe.pc = "openai"
    /\ \E o \in ProviderOutcomes :
         /\ probe' = [probe EXCEPT
                          !.pc = AfterProvider(o.result, "anthropic"),
                          !.log = Append(@, Logged("openai", o.kind))]
         /\ out' = IF o.result.available THEN <<o.result.result>> ELSE out
    /\ UNCHANGED <<now, store, upstream, ing, sw, hist>>

\* result = await analyzeWithAnthropic(job) (263-267)
TryAnthropic ==
    /\ probe.pc = "anthropic"
    /\ \E o \in ProviderOutcomes :
         /\ probe' = [probe EXCEPT
                          !.pc = AfterProvider(o.result, "rules"),
                          !.log = Append(@, Logged("anthropic", o.kind))]
         /\ out' = IF o.result.available THEN <<o.result.result>> ELSE out
    /\ UNCHANGED <<now, store, upstream, ing, sw, hist>>

\* return analyzeWithRules(job) (270-271)
FallBackToRules ==
    /\ probe.pc = "rules"
    /\ probe' = [probe EXCEPT !.pc = "done",
                              !.log = Append(@, Logged("rules", "ok"))]
    /\ out' = <<analyzeWithRules(probe.job)>>
    /\ UNCHANGED <<now, store, upstream, ing, sw, hist>>

NextScorer == TryOpenAI \/ TryAnthropic \/ FallBackToRules

SpecScorer == InitScorer /\ [][NextScorer]_vars

(***************************************************************************)
(* The adapters on their own: a single-request adapter (scrapeRemoteOK)    *)
(* and the paginated one (scrapeHimalayas), each request ending well or in *)
(* a fault, and scrapeAllSources over what they return.                    *)
(***************************************************************************)
\* how a request of an adapter can end: the response is not ok, fetch
\* rejects, response.json() rejects, or the mapping of the items throws
FetchFaults == {"not ok", "network", "parse", "schema"}
FetchOutcomes == {"ok"} \cup FetchFaults

\* an item the adapters map to a posting without an apply URL
JobNoUrl == Posting(Qa, Bolt, EmptyUrl, RemoteOkUrl, 0, 0, 50, {})

\* .filter((job) => job.applyUrl && job.title && job.company)
HasRequiredFields(job) ==
    job.applyUrl # EmptyUrl /\ job.title # <<>> /\ job.company # <<>>

RECURSIVE KeepRequired(_)
KeepRequired(items) ==
    IF items = <<>> THEN <<>>
    ELSE (IF HasRequiredFields(Head(items)) THEN <<Head(items)>> ELSE <<>>)
         \o KeepRequired(Tail(items))

\* scrapeRemoteOK: one request; [] when the response is not ok (67-70) or
\* anything throws (98-101)
scrapeRemoteOK(items, outcome) ==
    IF outcome = "ok" THEN KeepRequired(items) ELSE <<>>

\* scrapeHimalayas that gives up everything when a page fails
RECURSIVE scrapeHimalayasAllOrNothing(_, _, _, _)
scrapeHimalayasAllOrNothing(pages, outcomes, page, allJobs) ==
    IF page > MaxPages THEN allJobs
    ELSE IF outcomes[page] # "ok" THEN <<>>
    ELSE IF page > Len(pages) THEN allJobs
    ELSE scrapeHimalayasAllOrNothing(pages, outcomes, page + 1,
                                     allJobs \o KeepRequired(pages[page]))

\* scrapeHimalayas: page after page into allJobs, up to maxPages; the loop
\* ends at a response that is not ok (217-221), at an empty page (225-227)
\* or at a throw (253-255), and allJobs is returned as it stands (257)
RECURSIVE scrapeHimalayas(_, _, _, _)
scrapeHimalayas(pages, outcomes, page, allJobs) ==
    IF page > MaxPages THEN allJobs
    ELSE IF outcomes[page] # "ok" THEN allJobs
    ELSE IF page > Len(pages) THEN allJobs
    ELSE scrapeHimalayas(pages, outcomes, page + 1,
                         allJobs \o KeepRequired(pages[page]))

\* what the two sources serve and how each of their requests ends
SourceCases ==
    [items : SeqsUpTo({JobAcme, JobNoUrl}, 1) \ {<<>>},
     outcome : FetchOutcomes,
     pages : SeqsUpTo({<<JobBolt>>, <<JobShort, JobNoUrl>>}, MaxPages),
     outcomes : [1..MaxPages -> FetchOutcomes]]

InitSources ==
    /\ now = 0
    /\ store = <<>>
    /\ upstream = <<>>
    /\ ing = IngIdle
    /\ sw = SwIdle
    /\ hist = HistInit
    /\ probe \in SourceCases
    /\ out = <<>>

\* one call of scrapeAllSources over the two adapters
ScrapeSources ==
    /\ out = <<>>
    /\ LET remoteOKJobs == scrapeRemoteOK(probe.items, probe.outcome)
           himalayasJobs == scrapeHimalayas(probe.pages, probe.outcomes, 1, <<>>)
       IN out' = <<[remoteOKJobs |-> remoteOKJobs,
                    himalayasJobs |-> himalayasJobs,
                    uniqueJobs |-> scrapeAllSources(<<remoteOKJobs,
                                                      himalayasJobs>>)]>>
    /\ UNCHANGED <<now, store, upstream, ing, sw, hist, probe>>

SpecSources == InitSources /\ [][ScrapeSources]_vars

(***************************************************************************)
(* The link check on its own: one call of checkUrlAccessibility, request   *)
(* by request, and the sweep's check of the same URL against the same      *)
(* server.  probe holds how the server ends a HEAD and a GET request, the  *)
(* position of each check and the log of the verifier's requests; out      *)
(* holds what each check returned.                                         *)
(***************************************************************************)
ServerStatuses == {200, 301, 399, 400, 404, 405, 501}

\* how a request ends: a response with a status (fetch resolves whatever the
\* status), the abort of the 10 s timer, or a network error (fetch rejects)
RequestEnds ==
    {[kind |-> "status", status |-> n] : n \in ServerStatuses}
    \cup {[kind |-> k, status |-> NoStatus] : k \in {"timeout", "network"}}

\* what `await fetch(...)` hands to the code: the status, or a rejection
Fetched(end) == IF end.kind = "status" THEN end.status ELSE NetFail

\* the server answers the HEAD request with 405 or 501: it rejects the method
MethodRejected(end) == end.kind = "status" /\ end.status \in {405, 501}

InitLink ==
    /\ now = 0
    /\ store = <<>>
    /\ upstream = <<>>
    /\ ing = IngIdle
    /\ sw = SwIdle
    /\ hist = HistInit
    /\ probe \in {[head |-> h, get |-> g, pc |-> "head", log |-> <<>>,
                   sweep |-> "head"] : h \in RequestEnds, g \in RequestEnds}
    /\ out = [verifier |-> <<>>, sweep |-> <<>>]

\* the try block (66-84): HEAD; any response is final, a rejection is caught
HeadRequest ==
    /\ probe.pc = "head"
    /\ LET response == Fetched(probe.head)
       IN /\ probe' = [probe EXCEPT
                          !.pc = IF response # NetFail THEN "done" ELSE "get",
                          !.log = Append(@, "HEAD")]
          /\ out' = IF response # NetFail
                    THEN [out EXCEPT !.verifier =
                              <<[accessible |-> LinkOk(response),
                                 status |-> response]>>]
                    ELSE out
    /\ UNCHANGED <<now, store, upstream, ing, sw, hist>>

\* the catch block (85-108): GET; its response is final, its rejection gives
\* {accessible: false, status: null}
GetRequest ==
    /\ probe.pc = "get"
    /\ LET response == Fetched(probe.get)
       IN /\ probe' = [probe EXCEPT !.pc = "done", !.log = Append(@, "GET")]
          /\ out' = [out EXCEPT !.verifier =
                        <<IF response # NetFail
                          THEN [accessible |-> LinkOk(response),
                                status |-> response]
                          ELSE [accessible |-> FALSE, status |-> NoStatus]>>]
    /\ UNCHANGED <<now, store, upstream, ing, sw, hist>>

\* the sweep's check of the same URL (utils.ts:282-328): HEAD only
SweepHeadRequest ==
    /\ probe.sweep = "head"
    /\ probe' = [probe EXCEPT !.sweep = "done"]
    /\ out' = [out EXCEPT !.sweep = <<SweepLinkOk(Fetched(probe.head))>>]
    /\ UNCHANGED <<now, store, upstream, ing, sw, hist>>

NextLink == HeadRequest \/ GetRequest \/ SweepHeadRequest

SpecLink == InitLink /\ [][NextLink]_vars

(***************************************************************************)
(* The domain check on its own: one call of checkCompanyDomain on an apply *)
(* URL, with the responses the root of its host gives.                     *)
(***************************************************************************)
\* the fragments of a host that are whole labels, each with its dot
HostLabels == {"boards-api.", "jobs.", "www."}

\* clever.com and greenhouse.io.evil.example: hosts that are no ATS domain
\* and contain the name of one
CleverUrl == Url(<<"c", "lever.co", "m">>, "/careers")
EvilUrl == Url(<<"greenhouse.io", ".evil.example">>, "/apply")
LeverUrl == Url(<<"lever.co">>, "/bolt/7")

DomainUrls == {GhUrl1, LeverUrl, AcmeUrl, BoltUrl, CleverUrl, EvilUrl, EmptyUrl}

\* the host is an allow-listed domain or a subdomain of one: it ends with
\* the allow-listed name, and only whole labels stand before it
IsTrustedHost(host) ==
    /\ host # <<>>
    /\ host[Len(host)] \in TRUSTED_DOMAINS
    /\ \A i \in 1..(Len(host) - 1) : host[i] \in HostLabels

InitDomain ==
    /\ now = 0
    /\ store = <<>>
    /\ upstream = <<>>
    /\ ing = IngIdle
    /\ sw = SwIdle
    /\ hist = HistInit
    /\ probe \in [applyUrl : DomainUrls, rootHead : Responses,
                  rootGet : Responses]
    /\ out = <<>>

\* one call of checkCompanyDomain
CheckDomain ==
    /\ out = <<>>
    /\ out' = <<checkCompanyDomain(probe.applyUrl, probe.rootHead,
                                   probe.rootGet)>>
    /\ UNCHANGED <<now, store, upstream, ing, sw, hist, probe>>

SpecDomain == InitDomain /\ [][CheckDomain]_vars

(***************************************************************************)
(* The two batched stages of a run on their own: verifyJobs(newJobs, 5)    *)
(* and then analyzeJobs(validJobs, 3), unit by unit.  probe holds the      *)
(* number of postings of each stage, the stage, the loop variable i, the   *)
(* units in flight and the units that have settled.  A unit never rejects: *)
(* verifyJob and analyzeJobWithAI catch every fault of their requests.     *)
(***************************************************************************)
Concurrency(stage) ==
    IF stage = "verify" THEN VERIFY_CONCURRENCY ELSE SCORE_CONCURRENCY

\* jobs.slice(i, i + concurrency), as the positions of the units
BatchAt(i, concurrency, n) == {u \in 1..n : u > i /\ u <= i + concurrency}

\* Promise.all that resolves as soon as one unit of the batch has settled
BatchResolvedOnAny(batch, inFlight) == inFlight # batch

\* Promise.all resolves when every unit of the batch has settled
BatchResolved(batch, inFlight) == inFlight \cap batch = {}

\* the locals of a stage at its start; peak and valid belong to the run
StageStart(stage, n, peak, valid) ==
    [stage |-> stage, n |-> n, i |-> 0, pc |-> "loop", inFlight |-> {},
     settled |-> {}, peak |-> peak, valid |-> valid]

NoPeak == [verify |-> 0, score |-> 0]

InitBatch ==
    /\ now = 0
    /\ store = <<>>
    /\ upstream = <<>>
    /\ ing = IngIdle
    /\ sw = SwIdle
    /\ hist = HistInit
    /\ probe \in {StageStart("verify", n, NoPeak, m) :
                     n \in 0..MaxUnits, m \in 0..MaxUnits}
    /\ probe.valid <= probe.n
    /\ out = <<>>

\* the head of the for loop: the next batch is mapped to its promises, or
\* the loop is over and the stage returns its map
Dispatch ==
    /\ probe.pc = "loop"
    /\ IF probe.i < probe.n
       THEN LET batch == BatchAt(probe.i, Concurrency(probe.stage), probe.n)
                flying == probe.inFlight \cup batch
            IN /\ probe' = [probe EXCEPT !.pc = "await", !.inFlight = flying,
                               !.peak[probe.stage] =
                                   Max(@, Cardinality(flying))]
               /\ out' = out
       ELSE /\ probe' = [probe EXCEPT !.pc = "returned"]
            /\ out' = Append(out, [stage |-> probe.stage,
                                   results |-> probe.settled,
                                   inFlight |-> probe.inFlight])
    /\ UNCHANGED <<now, store, upstream, ing, sw, hist>>

\* one unit settles: its requests were answered, or their 10 s timers fired
Settle ==
    /\ \E u \in probe.inFlight, how \in {"answered", "timeout"} :
         probe' = [probe EXCEPT !.inFlight = @ \ {u}, !.settled = @ \cup {u}]
    /\ UNCHANGED <<now, store, upstream, ing, sw, hist, out>>

\* `await Promise.all(...)` resumes, the results are stored, i advances
Collect ==
    /\ probe.pc = "await"
    /\ BatchResolved(BatchAt(probe.i, Concurrency(probe.stage), probe.n),
                     probe.inFlight)
    /\ probe' = [probe EXCEPT !.pc = "loop",
                    !.i = @ + Concurrency(probe.stage)]
    /\ UNCHANGED <<now, store, upstream, ing, sw, hist, out>>

\* the run goes on from verification to scoring (utils.ts:131-162)
StartScoring ==
    /\ probe.pc = "returned"
    /\ probe.stage = "verify"
    /\ probe.valid > 0
    /\ probe' = StageStart("score", probe.valid, probe.peak, probe.valid)
    /\ UNCHANGED <<now, store, upstream, ing, sw, hist, out>>

NextBatch == Dispatch \/ Settle \/ Collect \/ StartScoring

SpecBatch == InitBatch /\ [][NextBatch]_vars

(***************************************************************************)
(* The listing on its own: the table holds any rows the schema admits      *)
(* (whoever wrote them: the pipeline, the sweep or the admin pages), the   *)
(* clock advances, and the public pages run their query.                   *)
(***************************************************************************)
\* check (verification_status in (...)) of the schema (001_initial_schema.sql:12-13)
STATUSES == {"VERIFIED", "EXPIRED", "BROKEN_LINK", "NOT_HIRING", "PENDING"}

\* a row with the given status and timestamp (last_verified_at is nullable)
ListingRow(status, t) ==
    [JobRow(JobAcme, verifyJob(JobAcme, [head |-> 200, get |-> NetFail,
                                         rootHead |-> 200, rootGet |-> NetFail]),
            analyzeWithRules(JobAcme), 0)
        EXCEPT !.verification_status = status, !.last_verified_at = t]

ListingRows ==
    {ListingRow(st, t) : st \in STATUSES, t \in {NoTime, 0, REVERIFY_HOURS}}

InitListing ==
    /\ now = 0
    /\ store \in SeqsUpTo(ListingRows, MaxListRows)
    /\ upstream = <<>>
    /\ ing = IngIdle
    /\ sw = SwIdle
    /\ hist = HistInit
    /\ probe = <<>>
    /\ out = <<>>

\* the query of HomePage and JobsPage at the present time
ListJobs ==
    /\ out' = <<[at |-> now, ids |-> PublicListing(store, now)]>>
    /\ out' # out
    /\ UNCHANGED <<now, store, upstream, ing, sw, hist, probe>>

NextListing == Tick \/ ListJobs

SpecListing == InitListing /\ [][NextListing]_vars

(***************************************************************************)
(* The aggregator with its adapters running concurrently: each adapter     *)
(* settles at some moment, in any order, and Promise.all resolves when the *)
(* last has.  probe holds what each adapter returns, the slots of the      *)
(* array Promise.all resolves to, and the order of completion.             *)
(***************************************************************************)
\* the slot a result lands in when results are pushed as they arrive
SlotByArrival(k, order) == Len(order) + 1

\* the slot of Promise.all: the position of the promise in the array passed
SlotOf(k, order) == k

InitOrder ==
    /\ now = 0
    /\ store = <<>>
    /\ upstream = <<>>
    /\ ing = IngIdle
    /\ sw = SwIdle
    /\ hist = HistInit
    /\ probe \in {[served |-> sv, slots |-> [k \in 1..NumAdapters |-> <<>>],
                   order |-> <<>>] :
                     sv \in [1..NumAdapters -> SeqsUpTo(AggCatalogue, 1)]}
    /\ out = <<>>

\* adapter k settles with its postings
AdapterSettles ==
    /\ \E k \in (1..NumAdapters) \ Range(probe.order) :
         probe' = [probe EXCEPT
                      !.slots[SlotOf(k, probe.order)] = probe.served[k],
                      !.order = Append(@, k)]
    /\ UNCHANGED <<now, store, upstream, ing, sw, hist, out>>

\* Promise.all has resolved: concatenation and dedup (597-627)
MergeSettled ==
    /\ out = <<>>
    /\ Len(probe.order) = NumAdapters
    /\ out' = <<scrapeAllSources(probe.slots)>>
    /\ UNCHANGED <<now, store, upstream, ing, sw, hist, probe>>

NextOrder == AdapterSettles \/ MergeSettled

SpecOrder == InitOrder /\ [][NextOrder]_vars

(***************************************************************************)
(* The lookup filter on its own: the table holds rows with any apply and   *)
(* source URLs, the select succeeds, and one scraped posting goes through  *)
(* the filter of step 2.                                                   *)
(***************************************************************************)
\* a stored row with the given URLs; source_url is "" when the feed item had
\* no url of its own (part_004:91-92)
StoredRow(a, s) ==
    JobRow(Posting(Dev, Acme, a, s, 0, 0, 300, {}),
           verifyJob(JobAcme, [head |-> 200, get |-> NetFail,
                               rootHead |-> 200, rootGet |-> NetFail]),
           analyzeWithRules(JobAcme), 0)

StoredRows ==
    {StoredRow(a, s) : a \in {GhUrl1, BoltUrl}, s \in {GhUrl1, BoltUrl, EmptyUrl}}

\* the postings an adapter hands on: an apply URL, and a source URL or ""
ScrapedUrls ==
    {Posting(Qa, Bolt, a, s, 0, 0, 300, {}) :
        a \in {GhUrl1, BoltUrl, AcmeUrl}, s \in {GhUrl1, AcmeUrl, EmptyUrl}}

InitLookup ==
    /\ now = 0
    /\ store \in SeqsUpTo(StoredRows, MaxStored)
    /\ upstream = <<>>
    /\ ing = IngIdle
    /\ sw = SwIdle
    /\ hist = HistInit
    /\ probe \in ScrapedUrls
    /\ out = <<>>

\* utils.ts:93-111 with the select answered: the set of stored URLs, and the
\* filter that keeps the posting or drops it
FilterNew ==
    /\ out = <<>>
    /\ LET existingUrls == StoredUrls(store)
       IN out' = <<[existingUrls |-> existingUrls,
                    kept |-> IsNewJob(probe, existingUrls)]>>
    /\ UNCHANGED <<now, store, upstream, ing, sw, hist, probe>>

SpecLookup == InitLookup /\ [][FilterNew]_vars

(***************************************************************************)
(* Waiting.  One ingestion run or one sweep as the sequence of network     *)
(* calls it awaits, each server answering, failing or staying silent.      *)
(* probe holds the operation, the behaviour of the server of each kind of  *)
(* call, and the position in the sequence; out holds what was returned.    *)
(***************************************************************************)
\* the awaited calls of a run, in order: a source fetch, the link check and
\* the domain check of verifyJob, a model call; those of a sweep: a link check
CallsOf(op) ==
    IF op = "run" THEN <<"source", "link", "domain", "model">> ELSE <<"link">>

CallKinds == {"source", "link", "domain", "model"}

\* the calls made with an AbortController and a 10 s timer: those of
\* checkUrlAccessibility (link and root domain) and the sweep's HEAD; the
\* fetches of the adapters and of the model providers pass no signal
HasTimeout(kind) == kind \in {"link", "domain"}

ServerBehaviours == {"answers", "fails", "silent"}

InitWait ==
    /\ now = 0
    /\ store = <<>>
    /\ upstream = <<>>
    /\ ing = IngIdle
    /\ sw = SwIdle
    /\ hist = HistInit
    /\ probe \in {[op |-> op, server |-> b, at |-> 1, ended |-> <<>>] :
                     op \in {"run", "sweep"},
                     b \in [CallKinds -> ServerBehaviours]}
    /\ out = <<>>

\* the awaited fetch settles: a response, or a rejection that the code catches
CallSettles ==
    /\ probe.at <= Len(CallsOf(probe.op))
    /\ LET kind == CallsOf(probe.op)[probe.at]
       IN /\ probe.server[kind] # "silent"
          /\ probe' = [probe EXCEPT !.at = @ + 1,
                          !.ended = Append(@, probe.server[kind])]
    /\ UNCHANGED <<now, store, upstream, ing, sw, hist, out>>

\* the 10 s timer of the call aborts it: the fetch rejects and is caught
CallTimesOut ==
    /\ probe.at <= Len(CallsOf(probe.op))
    /\ LET kind == CallsOf(probe.op)[probe.at]
       IN /\ probe.server[kind] = "silent"
          /\ HasTimeout(kind)
          /\ probe' = [probe EXCEPT !.at = @ + 1,
                          !.ended = Append(@, "timeout")]
    /\ UNCHANGED <<now, store, upstream, ing, sw, hist, out>>

\* nothing is awaited any more: the operation returns its result
OperationReturns ==
    /\ out = <<>>
    /\ probe.at > Len(CallsOf(probe.op))
    /\ out' = <<[op |-> probe.op, calls |-> probe.ended]>>
    /\ UNCHANGED <<now, store, upstream, ing, sw, hist, probe>>

NextWait == CallSettles \/ CallTimesOut \/ OperationReturns

\* the event loop runs every continuation that is ready
SpecWait == InitWait /\ [][NextWait]_vars /\ WF_vars(NextWait)

(***************************************************************************)
(* The admin pages next to the core: the dashboard with its Verify and     *)
(* Broken buttons, the edit form with Verify Now, and the new-job form,    *)
(* each a PUT or POST on the jobs table that can land between any two      *)
(* steps of a run or a sweep.  probe holds the page the administrator has  *)
(* open, the job the edit page loaded, and the number of writes made.      *)
(***************************************************************************)
AdmIdle == [page |-> "dashboard", id |-> 0, job |-> <<>>, edits |-> 0]

\* the body of updateStatus (admin/page.tsx:38-41) applied by PUT
updateStatus(rows, id, status, verify, time) ==
    [rows EXCEPT ![id].verification_status = status,
                 ![id].last_verified_at = IF verify THEN time ELSE @]

\* the edit form never stamps
StampOnEditNever(status, loaded) == FALSE

\* form.verification_status === "VERIFIED" && job?.verification_status !== "VERIFIED"
StampOnEdit(status, loaded) == status = "VERIFIED" /\ loaded # "VERIFIED"

\* the row POST /api/admin/jobs inserts for the new-job form: PENDING, the
\* columns the form does not send at their defaults
AdminRow(job, time) ==
    [title |-> job.title, company |-> job.company,
     apply_url |-> job.applyUrl, source_url |-> job.sourceUrl,
     verification_status |-> "PENDING", last_verified_at |-> NoTime,
     verification_notes |-> Note("none", NoStatus, NoStatus, NoTime),
     created_at |-> time]

\* history: the table was written by something other than the core
HistAdmin(h) == [h EXCEPT !.quiet = FALSE, !.cleanSweep = FALSE]

InitAdmin ==
    /\ now = 0
    /\ store = <<>>
    /\ upstream \in {<<<<JobShort>>>>, <<<<JobAcme>>>>}
    /\ ing = IngIdle
    /\ sw = SwIdle
    /\ hist = HistInit
    /\ probe = AdmIdle
    /\ out = <<>>

\* the Verify button of the dashboard: updateStatus(job.id, "VERIFIED", true)
AdminVerify ==
    /\ probe.page = "dashboard"
    /\ probe.edits < MaxEdits
    /\ \E id \in 1..Len(store) :
         store' = updateStatus(store, id, "VERIFIED", TRUE, now)
    /\ probe' = [probe EXCEPT !.edits = @ + 1]
    /\ hist' = HistAdmin(hist)
    /\ UNCHANGED <<now, upstream, ing, sw, out>>

\* the Broken button of the dashboard: updateStatus(job.id, "BROKEN_LINK")
AdminBroken ==
    /\ probe.page = "dashboard"
    /\ probe.edits < MaxEdits
    /\ \E id \in 1..Len(store) :
         store' = updateStatus(store, id, "BROKEN_LINK", FALSE, now)
    /\ probe' = [probe EXCEPT !.edits = @ + 1]
    /\ hist' = HistAdmin(hist)
    /\ UNCHANGED <<now, upstream, ing, sw, out>>

\* the edit page opens and loads its job (part_001:165-189)
AdminOpenEdit ==
    /\ probe.page = "dashboard"
    /\ probe.edits < MaxEdits
    /\ \E id \in 1..Len(store) :
         probe' = [probe EXCEPT !.page = "edit", !.id = id, !.job = <<store[id]>>]
    /\ UNCHANGED <<now, store, upstream, ing, sw, hist, out>>

\* the edit form is submitted with a status chosen (part_001:199-238): the
\* fields of the form as loaded, the status, and the timestamp when the form
\* turns a job it loaded as not VERIFIED into VERIFIED
AdminSubmitEdit ==
    /\ probe.page = "edit"
    /\ \E status \in STATUSES :
         store' = [store EXCEPT
                      ![probe.id].verification_status = status,
                      ![probe.id].verification_notes =
                          probe.job[1].verification_notes,
                      ![probe.id].last_verified_at =
                          IF StampOnEdit(status, probe.job[1].verification_status)
                          THEN now ELSE @]
    /\ probe' = [AdmIdle EXCEPT !.edits = probe.edits + 1]
    /\ hist' = HistAdmin(hist)
    /\ UNCHANGED <<now, upstream, ing, sw, out>>

\* the Verify Now button of the edit page (part_001:240-257)
AdminVerifyNow ==
    /\ probe.page = "edit"
    /\ store' = updateStatus(store, probe.id, "VERIFIED", TRUE, now)
    /\ probe' = [AdmIdle EXCEPT !.edits = probe.edits + 1]
    /\ hist' = HistAdmin(hist)
    /\ UNCHANGED <<now, upstream, ing, sw, out>>

\* the new-job form (admin/jobs/new/page.tsx:29-47)
AdminCreate ==
    /\ probe.page = "dashboard"
    /\ probe.edits < MaxEdits
    /\ store' = Append(store, AdminRow(JobBolt, now))
    /\ probe' = [probe EXCEPT !.edits = @ + 1]
    /\ hist' = HistAdmin(hist)
    /\ UNCHANGED <<now, upstream, ing, sw, out>>

NextAdmin == AdminVerify \/ AdminBroken \/ AdminOpenEdit \/ AdminSubmitEdit
             \/ AdminVerifyNow \/ AdminCreate

\* the core next to the administrator: the steps of Next, with the runs and
\* the sweeps that may start bounded by MaxAdminRuns and MaxAdminSweeps
StartRun == hist.runs < MaxAdminRuns /\ Scrape

StartSweep == hist.sweeps < MaxAdminSweeps /\ SweepLoad

NextCore == StartRun \/ Lookup \/ Verify \/ Score \/ Insert \/ Return
            \/ StartSweep \/ SweepFetch \/ SweepUpdate \/ SweepReturn \/ Tick

SpecAdmin == InitAdmin /\ [][NextCore \/ NextAdmin]_vars

(***************************************************************************)
(* Two invocations of runPipeline that overlap.  The first is the run of   *)
(* Next, its locals in ing; the second, triggered while the first is under *)
(* way, has its locals in probe.  Its verification and scoring stages,     *)
(* which do not touch the table, are one step.                             *)
(***************************************************************************)
InitOverlap ==
    /\ now = 0
    /\ store = <<>>
    /\ upstream \in Upstreams(MaxSysBatch)
    /\ ing = IngIdle
    /\ sw = SwIdle
    /\ hist = HistInit
    /\ probe = IngIdle
    /\ out = <<>>

\* an insert that skips a posting whose apply URL is stored
insertJobOnce(rows, row) ==
    IF \E i \in 1..Len(rows) : rows[i].apply_url = row.apply_url
    THEN rows ELSE Append(rows, row)

\* supabase.from("jobs").insert(row) answered without error (utils.ts:196-213)
insertJob(rows, row) == Append(rows, row)

\* steps 1 and 2 of the second run (73-113): the same upstream scraped, the
\* existing-URL set read once, the filter
SecondLookup ==
    /\ probe.pc = "idle"
    /\ \E outcome \in StorageOutcomes :
         LET jobs == scrapeAllSources(upstream)
             existingUrls == IF outcome = "ok" THEN StoredUrls(store) ELSE {}
             newJobs == FilterIdx(Positions(jobs),
                            {i \in 1..Len(jobs) : IsNewJob(jobs[i], existingUrls)})
         IN probe' = [probe EXCEPT
                         !.pc = IF Len(newJobs) = 0 THEN "done" ELSE "verify",
                         !.jobs = jobs,
                         !.existingUrls = existingUrls,
                         !.lookup = outcome,
                         !.newJobs = newJobs,
                         !.skippedCount = Len(jobs) - Len(newJobs)]
    /\ UNCHANGED <<now, store, upstream, ing, sw, hist, out>>

\* steps 3 and 4 of the second run (127-190)
SecondStages ==
    /\ probe.pc = "verify"
    /\ \E results \in VerifyOutcomes(probe.jobs, Range(probe.newJobs)) :
       \E aiResults \in AnalyzeOutcomes(probe.jobs, Range(probe.newJobs)) :
         LET validJobs == FilterIdx(probe.newJobs,
                              {i \in Range(probe.newJobs) : IsValidJob(results, i)})
             approvedJobs == CombineFrom(validJobs, 1, results, aiResults)
         IN probe' = [probe EXCEPT
                         !.pc = IF Len(approvedJobs) = 0 THEN "done" ELSE "insert",
                         !.verificationResults = results,
                         !.validJobs = validJobs,
                         !.aiResults = aiResults,
                         !.approvedJobs = approvedJobs,
                         !.idx = 1, !.addedCount = 0]
    /\ UNCHANGED <<now, store, upstream, ing, sw, hist, out>>

\* one pass of the insert loop of the second run (192-224)
SecondInsert ==
    /\ probe.pc = "insert"
    /\ \E outcome \in StorageOutcomes :
         LET item == probe.approvedJobs[probe.idx]
             row == JobRow(probe.jobs[item.job], item.verification,
                           item.aiAnalysis, now)
         IN /\ store' = IF outcome = "ok" THEN insertJob(store, row) ELSE store
            /\ probe' = [probe EXCEPT
                            !.idx = @ + 1,
                            !.addedCount = IF outcome = "ok" THEN @ + 1 ELSE @,
                            !.errors = IF outcome = "ok" THEN @
                                       ELSE Append(@, "Insert error"),
                            !.pc = IF probe.idx = Len(probe.approvedJobs)
                                   THEN "done" ELSE "insert"]
            /\ hist' = HistAdmin(hist)
    /\ UNCHANGED <<now, upstream, ing, sw, out>>

NextOverlap == StartRun \/ Lookup \/ Verify \/ Score \/ Insert \/ Return
               \/ SecondLookup \/ SecondStages \/ SecondInsert

SpecOverlap == InitOverlap /\ [][NextOverlap]_vars

(***************************************************************************)
(* The sweep on schedule: records inserted as VERIFIED at hour 0, a sweep  *)
(* started at least once every REVERIFY_HOURS, every query, link check and *)
(* update of it answered well.  The clock also advances while a sweep is   *)
(* under way, between its query and its updates; probe counts those hours. *)
(***************************************************************************)
InitFresh ==
    /\ now = 0
    /\ store \in {<<ListingRow("VERIFIED", 0)>>,
                  <<ListingRow("VERIFIED", 0), ListingRow("VERIFIED", 0)>>}
    /\ upstream = <<>>
    /\ ing = IngIdle
    /\ sw = SwIdle
    /\ hist = HistInit
    /\ probe = [lag |-> 0]
    /\ out = <<>>

\* the clock advances while no sweep is under way, never past the hour by
\* which the schedule starts the next one
ScheduledTick == Tick /\ now' - sw.startedAt <= REVERIFY_HOURS

\* the scheduler starts a sweep; its query succeeds
ScheduledLoad == SweepLoad /\ sw'.load = "ok"

\* the link answers with a status in [200,400)
LiveFetch == SweepFetch /\ SweepLinkOk(sw'.response)

\* the update succeeds
GoodUpdate == SweepUpdate /\ sw'.writesOk /\ sw'.pc # "crashed"

\* an hour passes between two awaits of the sweep
Lag ==
    /\ sw.pc \in {"fetch", "update"}
    /\ probe.lag < MaxLag
    /\ now' = now + 1
    /\ probe' = [probe EXCEPT !.lag = @ + 1]
    /\ UNCHANGED <<store, upstream, ing, sw, hist, out>>

\* the sweep returns; the hour it started at is kept for the schedule
ScheduledReturn ==
    /\ sw.pc = "done"
    /\ sw' = [SwIdle EXCEPT !.startedAt = sw.startedAt]
    /\ UNCHANGED <<now, store, upstream, ing, hist, probe, out>>

NextFresh == ScheduledTick \/ ScheduledLoad \/ LiveFetch \/ GoodUpdate \/ Lag
             \/ ScheduledReturn

SpecFresh == InitFresh /\ [][NextFresh]_vars
(***************************************************************************)
(* Properties.                                                             *)
(***************************************************************************)
Rows == {store[i] : i \in 1..Len(store)}

\* the apply URL or the source URL of the posting is on a row of the table
OnStoredRecord(job) ==
    \E r \in Rows : r.apply_url = job.applyUrl \/ r.source_url = job.sourceUrl

\* C1: a run that directly repeats a run on the same aggregate, the store
\* changed by that run only, returns addedCount = 0.  Stated for the runs that
\* repeat a run which stored every posting it scraped, where no change of a
\* link or of a model answer can account for an addition.
C1_SecondRunAddsNothing ==
    (ing.pc = "done" /\ ing.repeat) => ing.result[1].addedCount = 0

\* C2: a posting whose apply URL or source URL is on a stored record when the
\* run looks the store up is not among the new jobs, gets no verdict, is not
\* among the valid jobs, and is counted in skippedCount.  (The store is as the
\* lookup found it until the insert loop starts.)
C2_StoredUrlExcluded ==
    ing.pc \in {"verify", "score"} =>
        /\ \A i \in 1..Len(ing.jobs) :
              OnStoredRecord(ing.jobs[i]) =>
                  /\ i \notin Range(ing.newJobs)
                  /\ i \notin DOMAIN ing.verificationResults
                  /\ i \notin Range(ing.validJobs)
        /\ ing.skippedCount >=
              Cardinality({i \in 1..Len(ing.jobs) : OnStoredRecord(ing.jobs[i])})

\* C4: the jobs a run passes on to scoring all have a valid verdict (link
\* accessible, company domain trusted, no red flag), and verifiedCount is the
\* number of new jobs with a valid verdict.
C4_OnlyValidVerdicts ==
    ing.pc \in {"score", "insert", "done"} =>
        /\ \A i \in Range(ing.validJobs) :
              LET v == ing.verificationResults[i]
              IN v.urlAccessible /\ v.companyDomainValid /\ Len(v.redFlags) = 0
        /\ ing.result # <<>> =>
              ing.result[1].verifiedCount =
                  Cardinality({i \in Range(ing.newJobs) :
                      /\ i \in DOMAIN ing.verificationResults
                      /\ ing.verificationResults[i].urlAccessible
                      /\ ing.verificationResults[i].companyDomainValid
                      /\ Len(ing.verificationResults[i].redFlags) = 0})

\* the assessment the run holds for the job at position i of jobs
AssessmentOf(i) ==
    IF i \in DOMAIN ing.aiResults THEN ing.aiResults[i] ELSE DefaultAnalysis

\* C5: a step that inserts a row inserts a posting whose assessment is
\* APPROVE, or REVIEW with a score of at least 60.
C5_InsertOnlyAccepted ==
    [][Len(store') > Len(store) =>
          LET a == AssessmentOf(ing.approvedJobs[ing.idx].job)
          IN \/ a.recommendation = "APPROVE"
             \/ a.recommendation = "REVIEW" /\ a.legitimacyScore >= 60]_vars

\* C5 witness: a run has ended that dropped a REVIEW posting scored below 60
\* and inserted a REVIEW posting scored 60 or more
C5_Witness ==
    /\ ing.pc = "done"
    /\ \E i \in Range(ing.validJobs) :
          /\ AssessmentOf(i).recommendation = "REVIEW"
          /\ AssessmentOf(i).legitimacyScore < 60
          /\ \A k \in 1..Len(ing.approvedJobs) : ing.approvedJobs[k].job # i
    /\ \E k \in 1..Len(ing.approvedJobs) :
          /\ ing.approvedJobs[k].aiAnalysis.recommendation = "REVIEW"
          /\ \E r \in Rows :
                /\ r.apply_url = ing.jobs[ing.approvedJobs[k].job].applyUrl
                /\ r.verification_status = "PENDING"
\* C6: a step that inserts a row gives it status VERIFIED and the time of the
\* insert as last_verified_at when the recommendation is APPROVE, and status
\* PENDING and no last_verified_at otherwise.
C6_InsertedStatus ==
    [][Len(store') > Len(store) =>
          LET rec == AssessmentOf(ing.approvedJobs[ing.idx].job).recommendation
              row == store'[Len(store')]
          IN IF rec = "APPROVE"
             THEN /\ row.verification_status = "VERIFIED"
                  /\ row.last_verified_at = now
             ELSE /\ row.verification_status = "PENDING"
                  /\ row.last_verified_at = NoTime]_vars

\* C6 witness: rows inserted after the clock has advanced, one VERIFIED and
\* stamped with the time of its insert, one PENDING and not stamped
C6_Witness ==
    /\ \E r \in Rows : /\ r.verification_status = "VERIFIED"
                       /\ r.created_at > 0
                       /\ r.last_verified_at = r.created_at
    /\ \E r \in Rows : /\ r.verification_status = "PENDING"
                       /\ r.created_at > 0
                       /\ r.last_verified_at = NoTime

\* hours since the row was last verified
Age(row) == now - row.last_verified_at

\* C7 as claimed: of the VERIFIED rows with a timestamp, those aged 48 hours
\* or more are not listed and those aged less are.
C7_ExcludedAtBoundary ==
    \A i \in 1..Len(store) :
        (store[i].verification_status = "VERIFIED"
         /\ store[i].last_verified_at # NoTime) =>
            /\ Age(store[i]) >= 48 => i \notin PublicListing(store, now)
            /\ Age(store[i]) < 48 => i \in PublicListing(store, now)

\* C7 as amended: of the VERIFIED rows with a timestamp, those aged more than
\* 48 hours are not listed and those aged 48 hours or less are; the row aged
\* exactly 48 hours is listed.
C7_IncludedAtBoundary ==
    \A i \in 1..Len(store) :
        (store[i].verification_status = "VERIFIED"
         /\ store[i].last_verified_at # NoTime) =>
            /\ Age(store[i]) > 48 => i \notin PublicListing(store, now)
            /\ Age(store[i]) <= 48 => i \in PublicListing(store, now)

\* C7 witness: a VERIFIED row aged exactly 48 hours is listed
C7_Witness ==
    \E i \in 1..Len(store) :
        /\ store[i].verification_status = "VERIFIED"
        /\ store[i].last_verified_at # NoTime
        /\ Age(store[i]) = 48
        /\ i \in PublicListing(store, now)

\* C8: the pass of the sweep that follows a link check leaves the record
\* VERIFIED with last_verified_at set to the time of the pass and a
\* re-verification note, expired unchanged, when the status was in [200,400);
\* and leaves it BROKEN_LINK with a note of the cause (the HTTP status when
\* one was observed), expired increased by one, in every other case.
C8_SweepOutcome ==
    [][sw.pc = "update" =>
          LET id == sw.jobsToCheck[sw.idx].id
              row == store'[id]
          IN IF sw.response # NetFail /\ sw.response >= 200 /\ sw.response < 400
             THEN /\ row.verification_status = "VERIFIED"
                  /\ row.last_verified_at = now
                  /\ row.verification_notes.kind = "Re-verified"
                  /\ sw'.expired = sw.expired
             ELSE /\ row.verification_status = "BROKEN_LINK"
                  /\ row.verification_notes.kind \in {"Link broken", "Link unreachable"}
                  /\ sw.response # NetFail =>
                        row.verification_notes.http = sw.response
                  /\ sw'.expired = sw.expired + 1]_vars

\* the ids of the work list from position k on
Pending(k) == {sw.jobsToCheck[j].id : j \in k..Len(sw.jobsToCheck)}

C9_WitnessAfterClean ==
    /\ sw.pc = "done" /\ sw.afterClean
    /\ \E r \in Rows : r.verification_notes.kind # "Auto-verified"
\* the postings the adapters returned, in concatenation order
AllJobs == Flatten(probe)

\* same company and same title after lower-casing
SamePair(a, b) ==
    /\ toLowerCase(a.company) = toLowerCase(b.company)
    /\ toLowerCase(a.title) = toLowerCase(b.title)

\* the first position of AllJobs with the (company, title) of posting a
FirstOf(a) == CHOOSE i \in 1..Len(AllJobs) :
    /\ SamePair(AllJobs[i], a)
    /\ \A k \in 1..(i - 1) : ~SamePair(AllJobs[k], a)

C10_RuleScoreBounds ==
    out # <<>> =>
        LET a == out[1]
        IN /\ a.legitimacyScore \in 0..100
           /\ a.isLikelyGhostJob <=> a.legitimacyScore < 50
           /\ a.recommendation = "APPROVE" <=> a.legitimacyScore >= 70
           /\ a.recommendation = "REVIEW" <=>
                 (a.legitimacyScore >= 50 /\ a.legitimacyScore <= 69)
           /\ a.recommendation = "REJECT" <=> a.legitimacyScore < 50

\* C10 witness: all five concerns and no positive signal, a sum below zero,
\* scored 0 and rejected
C10_Witness ==
    /\ out # <<>>
    /\ Len(out[1].concerns) = 5
    /\ Len(out[1].positiveSignals) = 0
    /\ out[1].legitimacyScore = 0
    /\ out[1].recommendation = "REJECT"
\* the change of the score for a signal that is present
Delta(present, d) == IF present THEN d ELSE 0

\* the sum the rule engine is to reach for the posting under test, before the
\* clamp, from the fields of the posting
ExpectedRuleSum ==
    LET ph == probe.description.phrases
        len == probe.description.length
    IN 70
       + Delta("urgently hiring" \in ph, 0 - 15)
       + Delta("no experience needed" \in ph /\ "senior" \in ph, 0 - 20)
       + Delta(Len(probe.company) < 3
               \/ toLowerCase(probe.company)
                    = <<"c","o","n","f","i","d","e","n","t","i","a","l">>, 0 - 15)
       + Delta(len < 100, 0 - 10)
       + Delta("guaranteed income" \in ph, 0 - 25)
       + Delta(probe.salaryMin > 0 /\ probe.salaryMax > probe.salaryMin, 10)
       + Delta("team" \in ph, 5)
       + Delta(probe.applyUrl = GhUrl1, 10)
       + Delta(len > 500, 5)

\* C11: the score of analyzeWithRules is 70 plus the deltas of exactly the
\* signals present, brought into 0..100; and the posting with a neutral
\* description of 600 characters, salary 70000-90000 and a greenhouse apply
\* URL scores 95, is recommended APPROVE, is accepted and its row is VERIFIED.
C11_RuleScoreIsSum ==
    out # <<>> =>
        /\ out[1].legitimacyScore =
              (IF ExpectedRuleSum < 0 THEN 0
               ELSE IF ExpectedRuleSum > 100 THEN 100 ELSE ExpectedRuleSum)
        /\ probe = JobAcme =>
              /\ out[1].legitimacyScore = 95
              /\ out[1].recommendation = "APPROVE"
              /\ IsApproved(out[1])
              /\ JobRow(probe, [urlStatus |-> 200], out[1], 0).verification_status
                    = "VERIFIED"

\* C11 witness: the posting of the example has been scored 95
C11_Witness ==
    /\ probe = JobAcme
    /\ out # <<>>
    /\ out[1].legitimacyScore = 95
    /\ Len(out[1].positiveSignals) = 3
\* the label, when its condition holds
Flag(present, label) == IF present THEN <<label>> ELSE <<>>

\* C12: the red-flag list of detectRedFlags is decided by the posting: the
\* labels of the patterns that match its text, in the order of the pattern
\* list (the guaranteed-income label exactly if the text has "guaranteed
\* income"), then the salary label exactly if salaryMin is above 200000, then
\* the vague-company label exactly if the company has fewer than 3 characters
\* or is "company" or "confidential" in any case.
C12_RedFlagsOfPosting ==
    out # <<>> =>
        LET ph == probe.description.phrases
            co == toLowerCase(probe.company)
        IN out[1] =
              Flag("urgently hiring" \in ph, "Urgently hiring language")
              \o Flag("guaranteed income" \in ph, "Guaranteed income claims")
              \o Flag("wire transfer" \in ph, "Requests money transfer")
              \o Flag("ssn" \in ph, "Requests SSN upfront")
              \o Flag(probe.salaryMin > 200000,
                      "Unrealistic entry-level salary (>$200k)")
              \o Flag(\/ Len(probe.company) < 3
                      \/ co = <<"c","o","m","p","a","n","y">>
                      \/ co = <<"c","o","n","f","i","d","e","n","t","i","a","l">>,
                      "Vague or confidential company name")

\* C12 witness: a minimum salary of exactly 200000 is not flagged while the
\* text with "guaranteed income" and the company "CONFIDENTIAL" are
C12_Witness ==
    /\ probe.salaryMin = 200000
    /\ out = << <<"Guaranteed income claims",
                  "Vague or confidential company name">> >>
\* the strategies tried so far, in order
Tried == [i \in 1..Len(probe.log) |-> probe.log[i].who]

RECURSIVE PagesBefore(_)
PagesBefore(page) ==
    IF page > Len(probe.pages) \/ probe.outcomes[page] # "ok" THEN <<>>
    ELSE probe.pages[page] \o PagesBefore(page + 1)

\* a request of the paginated source, for a page it serves or the one after
\* the last, ended in a fault
PageFault(page) ==
    /\ page <= MaxPages /\ page <= Len(probe.pages) + 1
    /\ probe.outcomes[page] # "ok"
    /\ \A k \in 1..(page - 1) : probe.outcomes[k] = "ok"

\* the postings with an apply URL among those of a list
WithUrl(items) == {items[i] : i \in {k \in 1..Len(items) : items[k].applyUrl # EmptyUrl}}

C15_LookupFailureEndsRun ==
    ing.lookup \in {"error", "throw"} =>
        /\ ing.pc = "done"
        /\ ing.newJobs = <<>>
        /\ ing.verificationResults = <<>>
        /\ ing.aiResults = <<>>
        /\ ing.addedCount = 0
        /\ ing.result[1].verifiedCount = 0
        /\ ing.result[1].addedCount = 0
        /\ ing.result[1].errors # <<>>
\* C16: a sweep whose stale-record lookup failed (the query returned an error
\* or threw) has returned checked = 0 and expired = 0 with an error string,
\* with no record on its work list and no pass of its loop made.
C16_SweepLookupFailure ==
    sw.load \in {"error", "throw"} =>
        /\ sw.pc = "done"
        /\ sw.result # <<>>
        /\ sw.result[1].checked = 0
        /\ sw.result[1].expired = 0
        /\ sw.result[1].errors # <<>>
        /\ sw.jobsToCheck = <<>>
        /\ sw.idx = 1
\* C17: a step that inserts a row inserts a posting for which the run holds
\* a verdict of the verifier and an assessment of the scorer; a posting left
\* without either is never inserted.
C17_NoAssessmentNoInsert ==
    [][Len(store') > Len(store) =>
          LET job == ing.approvedJobs[ing.idx].job
          IN /\ job \in DOMAIN ing.verificationResults
             /\ job \in DOMAIN ing.aiResults]_vars
\* the number of insert errors in an error list
InsertErrors(errors) ==
    Cardinality({i \in 1..Len(errors) : errors[i] = "Insert error"})

\* C18: a pass of the insert loop keeps every row already stored; it either
\* appends the row of its posting, adds one to addedCount and no error, or
\* stores nothing, leaves addedCount and adds exactly one error string; in
\* both cases the next accepted posting is tried; and addedCount, in the run
\* and in its result, is the number of passes whose insert succeeded.
C18_InsertFailureIsLocal ==
    [][/\ ing.pc = "insert" =>
             /\ SubSeq(store', 1, Len(store)) = store
             /\ ing'.idx = ing.idx + 1
             /\ ing.idx < Len(ing.approvedJobs) => ing'.pc = "insert"
             /\ \/ /\ Len(store') = Len(store) + 1
                   /\ store'[Len(store')].apply_url
                         = ing.jobs[ing.approvedJobs[ing.idx].job].applyUrl
                   /\ ing'.addedCount = ing.addedCount + 1
                   /\ ing'.errors = ing.errors
                \/ /\ store' = store
                   /\ ing'.addedCount = ing.addedCount
                   /\ ing'.errors = Append(ing.errors, "Insert error")
       /\ (ing'.pc \in {"insert", "done"} /\ ing'.approvedJobs # <<>>) =>
             ing'.addedCount + InsertErrors(ing'.errors) = ing'.idx - 1
       /\ (ing'.pc = "done" /\ ing'.approvedJobs # <<>>) =>
             ing'.result[1].addedCount
                = Len(ing'.approvedJobs) - InsertErrors(ing'.errors)]_vars

\* C18 witness: of two accepted postings the insert of the first failed and
\* the second is stored
C18_Witness ==
    /\ ing.pc = "done"
    /\ Len(ing.approvedJobs) = 2
    /\ InsertErrors(ing.errors) = 1
    /\ ing.addedCount = 1
    /\ Len(store) = 1
    /\ store[1].apply_url = ing.jobs[ing.approvedJobs[2].job].applyUrl
    /\ store[1].apply_url # ing.jobs[ing.approvedJobs[1].job].applyUrl
\* C19: in the result of a run that reached the insert loop every scraped
\* posting is counted once, as skipped, as failed or as added:
\* scrapedCount = skippedCount + failedCount + addedCount.
C19_CountersAddUp ==
    (ing.pc = "done" /\ ing.approvedJobs # <<>>) =>
        ing.result[1].scrapedCount
            = ing.result[1].skippedCount + ing.result[1].failedCount
              + ing.result[1].addedCount
\* C20: no fault leaves runPipeline or reverifyExistingJobs, and what the
\* trigger answers for a finished ingestion run or sweep is an object with a
\* success flag, the counters of the run and its error list.
C20_AlwaysAResult ==
    /\ sw.pc # "crashed"
    /\ ing.pc = "done" =>
          LET reply == TriggerReply(ing.pc, ing.result)
          IN /\ "success" \in DOMAIN reply /\ "result" \in DOMAIN reply
             /\ {"scrapedCount", "verifiedCount", "addedCount", "skippedCount",
                 "failedCount", "errors"} \subseteq DOMAIN reply.result
    /\ sw.pc \in {"done", "crashed"} =>
          LET reply == TriggerReply(sw.pc, sw.result)
          IN /\ "success" \in DOMAIN reply /\ "result" \in DOMAIN reply
             /\ {"checked", "expired", "errors"} \subseteq DOMAIN reply.result

\* the request-by-request check returns what checkUrlAccessibility computes
LinkStepsAgree ==
    probe.pc = "done" =>
        out.verifier = <<checkUrlAccessibility(Fetched(probe.head),
                                               Fetched(probe.get))>>

\* the end of the last request the verifier's check made
FinalEnd == IF probe.log[Len(probe.log)] = "GET" THEN probe.get ELSE probe.head

\* C21: a finished link check began with a HEAD request; when the server
\* rejected the HEAD method it made exactly one GET request and the GET
\* decided the result; the link is accessible exactly when the final
\* response carries a status in [200,400)
C21_HeadRejectedRetriesGet ==
    probe.pc = "done" =>
        /\ probe.log[1] = "HEAD"
        /\ MethodRejected(probe.head) =>
               /\ probe.log = <<"HEAD", "GET">>
               /\ out.verifier[1].accessible
                      = (probe.get.kind = "status" /\ LinkOk(probe.get.status))
        /\ out.verifier[1].accessible
               = (FinalEnd.kind = "status" /\ LinkOk(FinalEnd.status))

\* C22: a domain check that trusted the apply URL either had an allow-listed
\* host (or a subdomain of one) or saw the accessibility check of the root
\* domain succeed; a host that only contains an allow-listed name is trusted
\* by the root check alone
C22_TrustedOnlyByListOrRoot ==
    (out # <<>> /\ out[1]) =>
        \/ IsTrustedHost(probe.applyUrl.host)
        \/ checkUrlAccessibility(probe.rootHead, probe.rootGet).accessible

\* C23: in a run at most 5 verification checks, and at most 3 scoring
\* calls, are in flight; the units in flight belong to the batch dispatched
\* last; a stage has returned only with every unit settled
C23_BoundedBatches ==
    /\ Cardinality(probe.inFlight) <= Concurrency(probe.stage)
    /\ probe.inFlight
           \subseteq BatchAt(probe.i, Concurrency(probe.stage), probe.n)
    /\ probe.pc = "returned" =>
           probe.inFlight = {} /\ probe.settled = 1..probe.n
    /\ \A k \in 1..Len(out) : out[k].inFlight = {}

\* a run whose verification stage took two batches and reached 5 units in
\* flight, at the end of a scoring stage that took two and reached 3
C23_Witness ==
    /\ probe.pc = "returned"
    /\ probe.stage = "score"
    /\ probe.n > SCORE_CONCURRENCY
    /\ probe.peak = [verify |-> VERIFY_CONCURRENCY, score |-> SCORE_CONCURRENCY]
    /\ Len(out) = 2
    /\ Cardinality(out[1].results) > VERIFY_CONCURRENCY

\* C24: every record a public listing query returned was VERIFIED, with a
\* last-verified timestamp that is set and no more than 48 hours before the
\* query; no record of another status was returned
C24_ListedOnlyVerifiedFresh ==
    out # <<>> =>
        \A i \in out[1].ids :
            /\ store[i].verification_status = "VERIFIED"
            /\ store[i].verification_status
                   \notin {"PENDING", "BROKEN_LINK", "EXPIRED", "NOT_HIRING"}
            /\ store[i].last_verified_at # NoTime
            /\ out[1].at - store[i].last_verified_at <= FRESHNESS_HOURS

\* a query that returned one row of a table which also holds a fresh row of
\* another status, with the clock past the window of the rows stamped 0
C24_Witness ==
    /\ out # <<>>
    /\ out[1].at > FRESHNESS_HOURS
    /\ Cardinality(out[1].ids) = 1
    /\ \E i \in 1..Len(store) :
           /\ store[i].verification_status # "VERIFIED"
           /\ store[i].last_verified_at = REVERIFY_HOURS

\* the object is an assessment as the scorer's contract describes it
WellFormed(a) ==
    /\ a.legitimacyScore \in 0..100
    /\ a.isLikelyGhostJob = (a.legitimacyScore < 50)
    /\ a.recommendation \in {"APPROVE", "REVIEW", "REJECT"}

\* C25: the assessment analyzeJobWithAI returned, from a provider or from
\* the rule engine, has a score in 0..100, the ghost flag exactly when the
\* score is below 50, and one of the three recommendations
C25_AssessmentWellFormed ==
    probe.pc = "done" => WellFormed(out[1])

\* C26: whatever the order in which the adapters settled, scrapeAllSources
\* returns the list that the per-source results give when taken in the
\* order of the adapters: the same postings, the same winners of the
\* duplicates, in the same order
C26_CompletionOrderIrrelevant ==
    out # <<>> => out[1] = scrapeAllSources(probe.served)

\* the last adapter settled first and the first last, the first and the
\* last returned the same (company, title), and the first one's won
C26_Witness ==
    /\ out # <<>>
    /\ probe.order[1] = NumAdapters
    /\ probe.order[NumAdapters] = 1
    /\ probe.served[1] = <<JobAcme>>
    /\ probe.served[2] = <<JobShort>>
    /\ probe.served[NumAdapters] = <<JobAcme2>>
    /\ out[1][1] = JobAcme
    /\ JobAcme2 \notin Range(out[1])

\* C27: for the same URL and the same answers of its server, the sweep
\* judges the link live exactly when checkUrlAccessibility reports it
\* accessible, a HEAD failure followed by a successful GET included
C27_SweepAgreesWithVerifier ==
    (probe.pc = "done" /\ probe.sweep = "done") =>
        out.sweep[1] = out.verifier[1].accessible

\* C28: a pass of the sweep whose storage update failed (the table is as it
\* was) ends inside the sweep with one more error string in its result, and
\* a pass increases `expired` only when it changed the stored status of its
\* record to BROKEN_LINK
C28_SweepUpdateFailureRecorded ==
    [][sw.pc = "update" =>
          LET id == sw.jobsToCheck[sw.idx].id
              demoted == /\ store[id].verification_status # "BROKEN_LINK"
                         /\ store'[id].verification_status = "BROKEN_LINK"
          IN /\ sw'.pc # "crashed"
             /\ store' = store => Len(sw'.errors) = Len(sw.errors) + 1
             /\ sw'.expired > sw.expired => demoted]_vars

\* C29: a posting of the batch is missing from the output of scrapeAllSources
\* only if an earlier posting of the batch has the same lower-cased company
\* and the same lower-cased title; two postings that differ in that pair are
\* both in the output, also when a company or a title contains "-"
C29_DroppedOnlyForSamePair ==
    out # <<>> =>
        /\ \A j \in 1..Len(AllJobs) :
               AllJobs[j] \notin Range(out[1]) =>
                   \E i \in 1..(j - 1) : SamePair(AllJobs[i], AllJobs[j])
        /\ \A i, j \in 1..Len(AllJobs) :
               (/\ ~SamePair(AllJobs[i], AllJobs[j])
                /\ \A k \in 1..Len(AllJobs) :
                       k \notin {i, j} => /\ ~SamePair(AllJobs[k], AllJobs[i])
                                          /\ ~SamePair(AllJobs[k], AllJobs[j])) =>
                   {AllJobs[i], AllJobs[j]} \subseteq Range(out[1])

\* C30: the lookup filter dropped the posting only if its apply URL, not
\* empty, is the apply URL of a stored record, or its source URL, not empty,
\* is the source URL of a stored record; neither an apply URL that equals a
\* stored source URL nor a shared empty source URL drops it
C30_DroppedOnlyForSameField ==
    (out # <<>> /\ ~out[1].kept) =>
        \E i \in 1..Len(store) :
            \/ probe.applyUrl # EmptyUrl /\ probe.applyUrl = store[i].apply_url
            \/ probe.sourceUrl # EmptyUrl /\ probe.sourceUrl = store[i].source_url

\* C31: every ingestion run and every sweep eventually returns its result,
\* whatever the servers do: each awaited network call ends by a response, a
\* failure or its own timeout
C31_EventuallyReturns == <>(out # <<>>)

\* C32: a pass of the sweep whose link check was answered with a status in
\* [200,400) neither sets its record to BROKEN_LINK nor increases `expired`,
\* whatever the storage writes do
C32_LiveLinkNeverDemoted ==
    [][(sw.pc = "update" /\ SweepLinkOk(sw.response)) =>
          LET id == sw.jobsToCheck[sw.idx].id
          IN /\ store'[id].verification_status = store[id].verification_status
             /\ sw'.expired = sw.expired]_vars

\* C33: no two stored records have the same apply URL
C33_ApplyUrlsDistinct ==
    \A i, j \in 1..Len(store) :
        i # j => store[i].apply_url # store[j].apply_url

\* the run with these locals read the existing-URL set of the empty table and
\* had every insert answered without error
InsertedUnseen(run) ==
    /\ run.pc = "done"
    /\ run.lookup = "ok"
    /\ run.existingUrls = {}
    /\ run.addedCount = Len(run.approvedJobs)

\* the apply URLs of the postings the run accepted
AcceptedUrls(run) ==
    {run.jobs[run.approvedJobs[k].job].applyUrl : k \in 1..Len(run.approvedJobs)}

\* C34: when two runs against the same upstream have both read the
\* existing-URL set before either inserted, and both accepted a posting and
\* inserted it, the store holds two records with the apply URL of that posting
C34_OverlapInsertsTwice ==
    (InsertedUnseen(ing) /\ InsertedUnseen(probe)) =>
        \A url \in AcceptedUrls(ing) \cap AcceptedUrls(probe) :
            \E i, k \in 1..Len(store) :
                /\ i # k
                /\ store[i].apply_url = url
                /\ store[k].apply_url = url

C34_Witness ==
    /\ InsertedUnseen(ing) /\ InsertedUnseen(probe)
    /\ AcceptedUrls(ing) \cap AcceptedUrls(probe) # {}
    /\ Len(store) = 2
    /\ store[1].apply_url = store[2].apply_url

\* the only change of status a step makes to a stored record is VERIFIED to
\* BROKEN_LINK
OnlyDemotions ==
    [][\A i \in 1..Len(store) :
          store'[i].verification_status # store[i].verification_status =>
              /\ store[i].verification_status = "VERIFIED"
              /\ store'[i].verification_status = "BROKEN_LINK"]_vars

\* the row a step inserts is the posting of no stored record that is not
\* VERIFIED
Reinserts(rows, row) ==
    \E i \in 1..Len(rows) :
        /\ rows[i].verification_status # "VERIFIED"
        /\ rows[i].apply_url = row.apply_url
        /\ rows[i].company = row.company
        /\ rows[i].title = row.title

\* a run whose lookup succeeded re-inserts no posting
NoReinsertAfterLookup ==
    [][(Len(store') > Len(store) /\ ing.lookup = "ok") =>
          ~Reinserts(store, store'[Len(store')])]_vars

\* C35: the only status change ingestion and sweep make to a stored record is
\* VERIFIED to BROKEN_LINK, and they never insert again the posting of a
\* record that is BROKEN_LINK, PENDING, EXPIRED or NOT_HIRING
C35_NonVerifiedStaysHidden ==
    [][/\ \A i \in 1..Len(store) :
             store'[i].verification_status # store[i].verification_status =>
                 /\ store[i].verification_status = "VERIFIED"
                 /\ store'[i].verification_status = "BROKEN_LINK"
       /\ Len(store') > Len(store) =>
             ~Reinserts(store, store'[Len(store')])]_vars

\* the record differs from the other in no column but the three the sweep
\* writes
SameButSwept(a, b) ==
    a = [b EXCEPT !.verification_status = a.verification_status,
                  !.last_verified_at = a.last_verified_at,
                  !.verification_notes = a.verification_notes]

\* what every pass of the sweep leaves alone: the number of records, the
\* records other than the one checked, the other columns of the one checked,
\* and on a failed link check its last-verified timestamp
SweepFrameRest ==
    [][sw.pc = "update" =>
          LET id == sw.jobsToCheck[sw.idx].id
          IN /\ Len(store') = Len(store)
             /\ \A i \in 1..Len(store) : i # id => store'[i] = store[i]
             /\ SameButSwept(store'[id], store[id])
             /\ ~SweepLinkOk(sw.response) =>
                    store'[id].last_verified_at = store[id].last_verified_at]_vars

\* C36: a pass of the sweep changes, of the record it checks, only
\* last_verified_at and verification_notes when the link check succeeded and
\* only verification_status and verification_notes when it failed; it changes
\* no other record and neither inserts nor deletes one
C36_SweepFrame ==
    [][sw.pc = "update" =>
          LET id == sw.jobsToCheck[sw.idx].id
          IN /\ Len(store') = Len(store)
             /\ \A i \in 1..Len(store) : i # id => store'[i] = store[i]
             /\ SameButSwept(store'[id], store[id])
             /\ SweepLinkOk(sw.response) =>
                    store'[id].verification_status = store[id].verification_status
             /\ ~SweepLinkOk(sw.response) =>
                    store'[id].last_verified_at = store[id].last_verified_at]_vars

\* C37: a pass of the sweep that writes a record whose status is no longer
\* VERIFIED, an administrator having changed it after the work list was
\* loaded, leaves that record's status and last-verified timestamp as they are
C37_SweepKeepsAdminStatus ==
    [][(sw.pc = "update" /\ sw' # sw) =>
          LET id == sw.jobsToCheck[sw.idx].id
          IN store[id].verification_status # "VERIFIED" =>
                /\ store'[id].verification_status = store[id].verification_status
                /\ store'[id].last_verified_at = store[id].last_verified_at]_vars

\* C38: every record with status VERIFIED has a last-verified timestamp
C38_VerifiedHasTimestamp ==
    \A i \in 1..Len(store) :
        store[i].verification_status = "VERIFIED" =>
            store[i].last_verified_at # NoTime

C38_Witness ==
    \E i \in 1..Len(store) :
        /\ store[i].title = JobBolt.title
        /\ store[i].company = JobBolt.company
        /\ store[i].verification_status = "VERIFIED"
        /\ store[i].last_verified_at # NoTime
        /\ probe.edits = MaxEdits

\* C39: with a sweep started at least once every 24 hours and every link
\* check and update succeeding, a record inserted as VERIFIED is at every
\* moment VERIFIED with a last-verified timestamp within the last 48 hours
C39_AlwaysListed ==
    \A i \in 1..Len(store) : IsListed(store[i], now)
====
